---- MODULE Spec2Model ----
(***************************************************************************)
(* A model of the virtual-tool grouping engine of vscode-copilot-chat:     *)
(*   - VirtualToolGrouper (virtualToolGrouper.ts): addGroups, its          *)
(*     per-toolset categorization tasks, deduplicateGroups and the two     *)
(*     expansion passes;                                                   *)
(*   - ToolEmbeddingsComputer (toolEmbeddingsCache.ts, in its two          *)
(*     versions: with and without the try/catch around the service call). *)
(* Strings are TLA+ strings; TLC evaluates \o, Len and SubSeq on them, so  *)
(* names are built and sliced as the TypeScript builds and slices them.    *)
(***************************************************************************)
EXTENDS Integers, Sequences, FiniteSets, TLC

VARIABLES
    \* ---- VirtualToolGrouper.addGroups ----
    root,            \* the root VirtualTool: [contents |-> Seq(item)]
    pc,              \* where addGroups is: "idle" or one of its await points
    call,            \* the arguments and locals of the addGroups call in progress
    tasks,           \* the per-toolset promises of Promise.all (a sequence)
    hist,            \* the categorization cache, and observations of the call:
                     \* getOrInsert calls, flushes, outcome
    ncalls,          \* number of addGroups invocations started
    session,         \* the inputs of this run: its tool lists, its number of
                     \* calls, the values of the ranking flag
    \* ---- deduplicateGroups ----
    dIn, dOut, dPhase,
    dHeap,           \* the caller's array and the objects, by reference
    dAgain,          \* what a second call on the same array returns
    dTwice,          \* what a call on the returned array returns
    \* ---- ToolEmbeddingsComputer ----
    embeddingsStore, isInitialized, emb,
    \* ---- the two expansion passes, loop iteration by loop iteration ----
    xp,
    \* ---- overlapping calls of ToolEmbeddingsComputer.ensureInitialized ----
    boot,
    \* ---- OpenAICompatibleTestEndpoint.interceptBody ----
    ep,
    \* ---- NodeTelemetryFileLogger.logLine ----
    lg

varsG == <<root, pc, call, tasks, hist, ncalls, session>>
varsD == <<dIn, dOut, dPhase, dHeap, dAgain, dTwice>>
varsE == <<embeddingsStore, isInitialized, emb>>
varsX == <<xp>>
varsO == <<boot, ep, lg>>
vars == <<root, pc, call, tasks, hist, ncalls, session, dIn, dOut, dPhase,
          dHeap, dAgain, dTwice,
          embeddingsStore, isInitialized, emb, xp, boot, ep, lg>>

(***************************************************************************)
(* Generic helpers.                                                        *)
(***************************************************************************)
Min(a, b) == IF a < b THEN a ELSE b

Range(s) == {s[i] : i \in 1..Len(s)}

\* items.map(t => t.name)
Names(items) == [i \in 1..Len(items) |-> items[i].name]

RECURSIVE SeqFilter(_, _)
\* Array.prototype.filter with the predicate given as a set of accepted values
SeqFilter(s, keep) ==
    IF s = <<>> THEN <<>>
    ELSE (IF Head(s) \in keep THEN <<Head(s)>> ELSE <<>>) \o SeqFilter(Tail(s), keep)

RECURSIVE Flat(_)
\* Array.prototype.flat on an array of arrays
Flat(ss) == IF ss = <<>> THEN <<>> ELSE Head(ss) \o Flat(Tail(ss))

\* all sequences over S of length 0..n
SeqsUpTo(S, n) == UNION {[1..k -> S] : k \in 0..n}

\* all sequences without repetition over S of length 0..n
DistinctSeqsUpTo(S, n) ==
    {s \in SeqsUpTo(S, n) : \A i, j \in 1..Len(s) : i # j => s[i] # s[j]}

(***************************************************************************)
(* JavaScript string operations used by the grouper.                       *)
(***************************************************************************)
AlphaNum ==
    {"a","b","c","d","e","f","g","h","i","j","k","l","m","n","o","p","q","r",
     "s","t","u","v","w","x","y","z","A","B","C","D","E","F","G","H","I","J",
     "K","L","M","N","O","P","Q","R","S","T","U","V","W","X","Y","Z",
     "0","1","2","3","4","5","6","7","8","9"}

CharAt(s, i) == SubSeq(s, i, i)

\* String.prototype.slice(from) and slice(0, to), 0-based as in JavaScript
SliceFrom(s, from) == IF from >= Len(s) THEN "" ELSE SubSeq(s, from + 1, Len(s))
SliceTo(s, to) == IF to <= 0 THEN "" ELSE SubSeq(s, 1, Min(to, Len(s)))

RECURSIVE ReplaceNonAlphaNum(_)
\* s.replaceAll(/[^a-zA-Z0-9]/g, '_')
ReplaceNonAlphaNum(s) ==
    IF Len(s) = 0 THEN ""
    ELSE (IF CharAt(s, 1) \in AlphaNum THEN CharAt(s, 1) ELSE "_")
         \o ReplaceNonAlphaNum(SliceFrom(s, 1))

RECURSIVE SplitDot(_, _)
\* s.split('.'): cur is the segment being read
SplitDot(s, cur) ==
    IF Len(s) = 0 THEN <<cur>>
    ELSE IF CharAt(s, 1) = "." THEN <<cur>> \o SplitDot(SliceFrom(s, 1), "")
    ELSE SplitDot(SliceFrom(s, 1), cur \o CharAt(s, 1))

StartsWith(s, p) == Len(s) >= Len(p) /\ SubSeq(s, 1, Len(p)) = p

(***************************************************************************)
(* Configuration constants.  virtualToolsConstants.ts and HARD_TOOL_LIMIT  *)
(* are imported by the grouper (virtualToolGrouper.ts:7,24); their values  *)
(* are scaled down here, keeping                                           *)
(*   MIN_TOOLSET_SIZE_TO_GROUP < GROUP_WITHIN_TOOLSET and                  *)
(*   EXPAND_UNTIL_COUNT <= START_GROUPING_AFTER_TOOL_COUNT                 *)
(*                      < HARD_TOOL_LIMIT.                                 *)
(***************************************************************************)
HARD_TOOL_LIMIT == 5
START_GROUPING_AFTER_TOOL_COUNT == 3
EXPAND_UNTIL_COUNT == 3
MIN_TOOLSET_SIZE_TO_GROUP == 1
GROUP_WITHIN_TOOLSET == 2
MAX_CATEGORIZATION_RETRIES == 2
UNCATEGORIZED_TOOLS_GROUP_NAME == "uncategorized"
VIRTUAL_TOOL_NAME_PREFIX == "activate_"

BUILT_IN_GROUP == "builtin"
SUMMARY_PREFIX == "Call this tool when you need access to a new category of tools. The category of tools is described as follows:\n\n"
SUMMARY_SUFFIX == "\n\nBe sure to call this tool if you need a capability related to the above."

(***************************************************************************)
(* Data model: the tagged union {Group(VirtualTool) | Leaf(Tool)}.         *)
(***************************************************************************)
\* LanguageModelToolExtensionSource / LanguageModelToolMCPSource / neither
ExtSource(id) == [type |-> "ext", id |-> id, label |-> ""]
McpSource(label) == [type |-> "mcp", id |-> "", label |-> label]
BuiltinSource == [type |-> "builtin", id |-> "", label |-> ""]

\* LanguageModelToolInformation
Tool(name, source) == [kind |-> "tool", name |-> name, source |-> source]

\* IVirtualToolMetadata; an undefined possiblePrefix is "", an undefined
\* preExpanded is FALSE
Metadata(toolsetKey, groups, possiblePrefix) ==
    [toolsetKey |-> toolsetKey, groups |-> groups,
     possiblePrefix |-> possiblePrefix, preExpanded |-> FALSE]

\* new VirtualTool(name, description, lastUsedOnTurn, metadata, contents)
VirtualTool(name, description, lastUsedOnTurn, metadata, contents) ==
    [kind |-> "group", name |-> name, description |-> description,
     lastUsedOnTurn |-> lastUsedOnTurn, metadata |-> metadata,
     contents |-> contents, isExpanded |-> FALSE]

\* item instanceof VirtualTool
IsVirtualTool(item) == item.kind = "group"

\* VirtualTool.cloneWithPrefix: a new node with the same description,
\* contents and metadata, named prefix-then-rest after the synthetic prefix
cloneWithPrefix(vt, prefix) ==
    VirtualTool(
        VIRTUAL_TOOL_NAME_PREFIX \o prefix
            \o SliceFrom(vt.name, Len(VIRTUAL_TOOL_NAME_PREFIX)),
        vt.description, vt.lastUsedOnTurn, vt.metadata, vt.contents)

RECURSIVE VisibleOf(_)
\* VirtualTool.tools() over a contents array: a collapsed group is one
\* opaque item, an expanded group yields its children's visible items
VisibleOf(contents) ==
    IF contents = <<>> THEN <<>>
    ELSE LET c == Head(contents) IN
         (IF IsVirtualTool(c)
            THEN (IF c.isExpanded THEN VisibleOf(c.contents) ELSE <<c.name>>)
            ELSE <<c.name>>)
         \o VisibleOf(Tail(contents))

\* Iterable.length(root.tools())
ToolCount(r) == Len(VisibleOf(r.contents))

RECURSIVE AllOf(_)
\* VirtualTool.all() below the root: depth-first, every node and leaf
AllOf(contents) ==
    IF contents = <<>> THEN <<>>
    ELSE LET c == Head(contents) IN
         <<c>> \o (IF IsVirtualTool(c) THEN AllOf(c.contents) ELSE <<>>)
         \o AllOf(Tail(contents))

(***************************************************************************)
(* A JavaScript Map as the sequence of its [k, v] entries in insertion     *)
(* order: set on a present key keeps the entry's place.                    *)
(***************************************************************************)
MapHas(m, k) == \E i \in 1..Len(m) : m[i].k = k
MapGet(m, k) == m[CHOOSE i \in 1..Len(m) : m[i].k = k].v
MapSet(m, k, v) ==
    IF MapHas(m, k)
      THEN [i \in 1..Len(m) |-> IF m[i].k = k THEN [k |-> k, v |-> v] ELSE m[i]]
      ELSE Append(m, [k |-> k, v |-> v])
RECURSIVE MapDelete(_, _)
MapDelete(m, k) ==
    IF m = <<>> THEN <<>>
    ELSE (IF Head(m).k = k THEN <<>> ELSE <<Head(m)>>) \o MapDelete(Tail(m), k)
MapValues(m) == [i \in 1..Len(m) |-> m[i].v]

(***************************************************************************)
(* VirtualToolGrouper.deduplicateGroups                                    *)
(***************************************************************************)
\* a slip in the second branch: the un-renamed item is stored under the
\* clone's key
DedupStepStoresItem(seen, item) ==
    IF ~MapHas(seen, item.name) THEN MapSet(seen, item.name, item)
    ELSE LET saw == MapGet(seen, item.name) IN
         IF IsVirtualTool(saw) /\ saw.metadata.possiblePrefix # ""
           THEN LET replacement == cloneWithPrefix(saw, saw.metadata.possiblePrefix) IN
                MapSet(MapSet(MapDelete(seen, saw.name), replacement.name, replacement),
                       item.name, item)
         ELSE IF IsVirtualTool(item) /\ item.metadata.possiblePrefix # ""
           THEN LET next == cloneWithPrefix(item, item.metadata.possiblePrefix) IN
                MapSet(seen, next.name, item)
         ELSE seen

\* a slip: a group that has a possiblePrefix is stored under its prefixed
\* name from the start
DedupStepPrefixesFirst(seen, item) ==
    IF ~MapHas(seen, item.name)
      THEN IF IsVirtualTool(item) /\ item.metadata.possiblePrefix # ""
             THEN LET next == cloneWithPrefix(item, item.metadata.possiblePrefix) IN
                  MapSet(seen, next.name, next)
             ELSE MapSet(seen, item.name, item)
    ELSE LET saw == MapGet(seen, item.name) IN
         IF IsVirtualTool(saw) /\ saw.metadata.possiblePrefix # ""
           THEN LET replacement == cloneWithPrefix(saw, saw.metadata.possiblePrefix) IN
                MapSet(MapSet(MapDelete(seen, saw.name), replacement.name, replacement),
                       item.name, item)
         ELSE IF IsVirtualTool(item) /\ item.metadata.possiblePrefix # ""
           THEN LET next == cloneWithPrefix(item, item.metadata.possiblePrefix) IN
                MapSet(seen, next.name, next)
         ELSE seen

\* one iteration of the for loop over grouped
DedupStep(seen, item) ==
    IF ~MapHas(seen, item.name) THEN MapSet(seen, item.name, item)
    ELSE LET saw == MapGet(seen, item.name) IN
         IF IsVirtualTool(saw) /\ saw.metadata.possiblePrefix # ""
           THEN LET replacement == cloneWithPrefix(saw, saw.metadata.possiblePrefix) IN
                MapSet(MapSet(MapDelete(seen, saw.name), replacement.name, replacement),
                       item.name, item)
         ELSE IF IsVirtualTool(item) /\ item.metadata.possiblePrefix # ""
           THEN LET next == cloneWithPrefix(item, item.metadata.possiblePrefix) IN
                MapSet(seen, next.name, next)
         ELSE seen

RECURSIVE DedupLoop(_, _)
DedupLoop(seen, grouped) ==
    IF grouped = <<>> THEN seen
    ELSE DedupLoop(DedupStep(seen, Head(grouped)), Tail(grouped))

deduplicateGroups(grouped) == MapValues(DedupLoop(<<>>, grouped))

\* The same loop over object references.  objects[r] is the object behind
\* reference r, grouped is the argument array (of references), seen maps a
\* name to a reference.
NoHeap == [objects |-> <<>>, grouped |-> <<>>, seen |-> <<>>]

\* the caller's array and objects when deduplicateGroups is entered
HeapOf(items) ==
    [objects |-> items, grouped |-> [i \in 1..Len(items) |-> i], seen |-> <<>>]

\* the items behind a sequence of references
Deref(objects, refs) == [i \in 1..Len(refs) |-> objects[refs[i]]]

\* the loop body, were the kept group renamed in place instead of cloned
DedupStepRefsRenamesSaw(st, item) ==
    LET name == st.objects[item].name IN
    IF ~MapHas(st.seen, name) THEN [st EXCEPT !.seen = MapSet(@, name, item)]
    ELSE LET saw == MapGet(st.seen, name)
             sawObj == st.objects[saw]
             itemObj == st.objects[item] IN
         IF IsVirtualTool(sawObj) /\ sawObj.metadata.possiblePrefix # ""
           THEN LET renamed == cloneWithPrefix(sawObj, sawObj.metadata.possiblePrefix) IN
                [st EXCEPT !.objects = [@ EXCEPT ![saw] = renamed],
                           !.seen = MapSet(MapSet(MapDelete(@, sawObj.name),
                                                  renamed.name, saw),
                                           name, item)]
         ELSE IF IsVirtualTool(itemObj) /\ itemObj.metadata.possiblePrefix # ""
           THEN LET next == Len(st.objects) + 1
                    nextObj == cloneWithPrefix(itemObj, itemObj.metadata.possiblePrefix) IN
                [st EXCEPT !.objects = Append(@, nextObj),
                           !.seen = MapSet(@, nextObj.name, next)]
         ELSE st

\* one iteration of the for loop: the only objects written are the clones
\* cloneWithPrefix allocates; grouped and the objects it refers to are read
DedupStepRefs(st, item) ==
    LET name == st.objects[item].name IN
    IF ~MapHas(st.seen, name) THEN [st EXCEPT !.seen = MapSet(@, name, item)]
    ELSE LET saw == MapGet(st.seen, name)
             sawObj == st.objects[saw]
             itemObj == st.objects[item] IN
         IF IsVirtualTool(sawObj) /\ sawObj.metadata.possiblePrefix # ""
           THEN LET replacement == Len(st.objects) + 1
                    replacementObj == cloneWithPrefix(sawObj, sawObj.metadata.possiblePrefix) IN
                [st EXCEPT !.objects = Append(@, replacementObj),
                           !.seen = MapSet(MapSet(MapDelete(@, sawObj.name),
                                                  replacementObj.name, replacement),
                                           name, item)]
         ELSE IF IsVirtualTool(itemObj) /\ itemObj.metadata.possiblePrefix # ""
           THEN LET next == Len(st.objects) + 1
                    nextObj == cloneWithPrefix(itemObj, itemObj.metadata.possiblePrefix) IN
                [st EXCEPT !.objects = Append(@, nextObj),
                           !.seen = MapSet(@, nextObj.name, next)]
         ELSE st

RECURSIVE DedupLoopRefs(_, _)
\* the for loop from the k-th element of grouped on
DedupLoopRefs(st, k) ==
    IF k > Len(st.grouped) THEN st
    ELSE DedupLoopRefs(DedupStepRefs(st, st.grouped[k]), k + 1)

\* the heap when deduplicateGroups returns; MapValues(seen) is the returned
\* array of references
deduplicateGroupsRefs(st) == DedupLoopRefs([st EXCEPT !.seen = <<>>], 1)

(***************************************************************************)
(* VirtualToolGrouper: partitioning and previous-state snapshot.           *)
(***************************************************************************)
\* the groupBy key function of addGroups
ToolsetKey(t) ==
    IF t.source.type = "ext" THEN "ext_" \o t.source.id
    ELSE IF t.source.type = "mcp" THEN "mcp_" \o t.source.label
    ELSE BUILT_IN_GROUP

RECURSIVE GroupByLoop(_, _)
GroupByLoop(acc, tools) ==
    IF tools = <<>> THEN acc
    ELSE LET t == Head(tools)
             k == ToolsetKey(t)
         IN GroupByLoop(
                MapSet(acc, k, IF MapHas(acc, k) THEN Append(MapGet(acc, k), t) ELSE <<t>>),
                Tail(tools))

\* Object.entries(groupBy(tools, ...)): keys in order of first appearance
byToolsetOf(tools) == GroupByLoop(<<>>, tools)

RECURSIVE PreviousGroupsLoop(_, _)
PreviousGroupsLoop(acc, all) ==
    IF all = <<>> THEN acc
    ELSE PreviousGroupsLoop(
            IF IsVirtualTool(Head(all)) THEN MapSet(acc, Head(all).name, Head(all)) ELSE acc,
            Tail(all))

\* previousGroups: name -> VirtualTool over root.all()
previousGroupsOf(r) == PreviousGroupsLoop(<<>>, AllOf(r.contents))

RECURSIVE PreviousCategorizationsLoop(_, _)
PreviousCategorizationsLoop(acc, all) ==
    IF all = <<>> THEN acc
    ELSE PreviousCategorizationsLoop(
            IF IsVirtualTool(Head(all)) /\ Head(all).metadata.toolsetKey # ""
              THEN MapSet(acc, Head(all).metadata.toolsetKey, Head(all).metadata.groups)
              ELSE acc,
            Tail(all))

\* previousCategorizations: toolsetKey -> ISummarizedToolCategory[]
previousCategorizationsOf(r) == PreviousCategorizationsLoop(<<>>, AllOf(r.contents))

(***************************************************************************)
(* _generateGroupsFromToolset after its retry loop.                        *)
(***************************************************************************)
\* the possiblePrefix of the groups of a toolset, from tools[0].source
possiblePrefixOf(src) ==
    LET segs == SplitDot(src.id, "")
        raw == IF src.type = "ext"
                 THEN (IF Len(segs) >= 2 /\ segs[2] # "" THEN segs[2] ELSE src.id)
                 ELSE src.label
    IN SliceTo(ReplaceNonAlphaNum(raw), 10) \o "_"

\* virts.findIndex(g => g.name === UNCATEGORIZED_TOOLS_GROUP_NAME), 1-based, 0 if none
FindUncategorized(virts) ==
    IF \E i \in 1..Len(virts) : virts[i].name = UNCATEGORIZED_TOOLS_GROUP_NAME
      THEN CHOOSE i \in 1..Len(virts) :
              /\ virts[i].name = UNCATEGORIZED_TOOLS_GROUP_NAME
              /\ \A j \in 1..(i - 1) : virts[j].name # UNCATEGORIZED_TOOLS_GROUP_NAME
      ELSE 0

\* virts.splice(group, 1)
Splice1(virts, group) ==
    [i \in 1..(Len(virts) - 1) |-> IF i < group THEN virts[i] ELSE virts[i + 1]]

\* virts?.map(v => new VirtualTool(...)) on the spliced virts
VirtualToolsOf(key, tools, virts) ==
    [i \in 1..Len(virts) |->
        VirtualTool(VIRTUAL_TOOL_NAME_PREFIX \o virts[i].name,
                    SUMMARY_PREFIX \o virts[i].summary \o SUMMARY_SUFFIX,
                    0,
                    Metadata(key, virts, possiblePrefixOf(tools[1].source)),
                    virts[i].tools)]

\* a slip: exhausted retries still produce a group for the toolset
ToolsetResultGroupsOnFailure(key, tools, hasVirts, virts) ==
    LET vs == IF hasVirts THEN virts
              ELSE <<[name |-> "failed", summary |-> "", tools |-> tools]>>
        group == FindUncategorized(vs)
        uncategorized == IF group > 0 THEN vs[group].tools ELSE <<>>
        kept == IF group > 0 THEN Splice1(vs, group) ELSE vs
    IN VirtualToolsOf(key, tools, kept) \o uncategorized

\* lines 250-302: the value the task resolves with; hasVirts is FALSE when
\* the retry loop ended without a result
ToolsetResult(key, tools, hasVirts, virts) ==
    IF ~hasVirts THEN tools
    ELSE LET group == FindUncategorized(virts)
             uncategorized == IF group > 0 THEN virts[group].tools ELSE <<>>
             kept == IF group > 0 THEN Splice1(virts, group) ELSE virts
         IN VirtualToolsOf(key, tools, kept) \o uncategorized

(***************************************************************************)
(* State carry-over and the two expansion passes.                          *)
(***************************************************************************)
RECURSIVE CarryOverByContents(_, _)
\* a slip: the previous node is looked up by what the group holds, so a
\* renamed group inherits the state of the node it came from
CarryOverByContents(contents, previousGroups) ==
    [i \in 1..Len(contents) |->
        LET c == contents[i] IN
        IF ~IsVirtualTool(c) THEN c
        ELSE IF \E j \in 1..Len(previousGroups) : previousGroups[j].v.contents = c.contents
          THEN LET prev == (CHOOSE e \in Range(previousGroups) : e.v.contents = c.contents).v IN
               [c EXCEPT !.isExpanded = prev.isExpanded,
                         !.metadata.preExpanded = prev.metadata.preExpanded,
                         !.lastUsedOnTurn = prev.lastUsedOnTurn]
          ELSE c]

RECURSIVE CarryOver(_, _)
\* lines 88-97, over root.all()
CarryOver(contents, previousGroups) ==
    [i \in 1..Len(contents) |->
        LET c == contents[i] IN
        IF ~IsVirtualTool(c) THEN c
        ELSE LET d == [c EXCEPT !.contents = CarryOver(c.contents, previousGroups)] IN
             IF MapHas(previousGroups, d.name)
               THEN LET prev == MapGet(previousGroups, d.name) IN
                    [d EXCEPT !.isExpanded = prev.isExpanded,
                              !.metadata.preExpanded = prev.metadata.preExpanded,
                              !.lastUsedOnTurn = prev.lastUsedOnTurn]
               ELSE d]

RECURSIVE InsertSorted(_, _, _)
InsertSorted(sorted, x, key) ==
    IF sorted = <<>> THEN <<x>>
    ELSE IF key[Head(sorted)] <= key[x]
      THEN <<Head(sorted)>> \o InsertSorted(Tail(sorted), x, key)
      ELSE <<x>> \o sorted

RECURSIVE SortBy(_, _)
\* Array.prototype.sort((a, b) => key[a] - key[b]): stable
SortBy(s, key) ==
    IF s = <<>> THEN <<>>
    ELSE InsertSorted(SortBy(SubSeq(s, 1, Len(s) - 1), key), s[Len(s)], key)

\* index of a name in an array, 0 if absent (toolPriority.get)
IndexOf(names, n) ==
    IF \E i \in 1..Len(names) : names[i] = n
      THEN CHOOSE i \in 1..Len(names) :
              names[i] = n /\ \A j \in (i + 1)..Len(names) : names[j] # n
      ELSE 0

\* vtool.isExpanded = true; vtool.metadata.preExpanded = true
Expand(contents, i) ==
    [contents EXCEPT ![i].isExpanded = TRUE, ![i].metadata.preExpanded = TRUE]

\* a slip: the expanded group is still counted as an item
NextCountKeepsGroup(contents, toolCount, i) == toolCount + Len(contents[i].contents)

\* lines 182 and 213: toolCount - 1 + vtool.contents.length
NextCount(contents, toolCount, i) == toolCount - 1 + Len(contents[i].contents)

\* a slip: a candidate that does not fit is skipped and the loop goes on
PredictedStepSkips(contents, cands, toolCount) ==
    LET nextCount == NextCount(contents, toolCount, Head(cands)) IN
    IF nextCount > HARD_TOOL_LIMIT
      THEN [contents |-> contents, cands |-> Tail(cands), toolCount |-> toolCount]
      ELSE [contents |-> Expand(contents, Head(cands)), cands |-> Tail(cands),
            toolCount |-> nextCount]

\* lines 181-190: one iteration of the for loop over the candidates, which
\* are indices of root.contents; a break leaves no candidate
PredictedStep(contents, cands, toolCount) ==
    LET nextCount == NextCount(contents, toolCount, Head(cands)) IN
    IF nextCount > HARD_TOOL_LIMIT
      THEN [contents |-> contents, cands |-> <<>>, toolCount |-> toolCount]
      ELSE [contents |-> Expand(contents, Head(cands)), cands |-> Tail(cands),
            toolCount |-> nextCount]

RECURSIVE PredictedLoop(_, _, _)
\* lines 181-190: the for loop
PredictedLoop(contents, cands, toolCount) ==
    IF cands = <<>> THEN contents
    ELSE LET st == PredictedStep(contents, cands, toolCount) IN
         PredictedLoop(st.contents, st.cands, st.toolCount)

\* lines 155-178: expandableGroupsWithPredictedTools, as indices of
\* root.contents
PredictedCands(r, predicted) ==
    LET cs == r.contents
        hit(i) == {j \in 1..Len(cs[i].contents) : cs[i].contents[j].name \in Range(predicted)}
        isCand(i) == IsVirtualTool(cs[i]) /\ ~cs[i].isExpanded /\ hit(i) # {}
        prio == [i \in 1..Len(cs) |->
                   IF isCand(i)
                     THEN CHOOSE p \in {IndexOf(predicted, cs[i].contents[j].name) : j \in hit(i)} :
                             \A q \in {IndexOf(predicted, cs[i].contents[j].name) : j \in hit(i)} : p <= q
                     ELSE 0]
    IN SortBy(SeqFilter([i \in 1..Len(cs) |-> i], {i \in 1..Len(cs) : isCand(i)}), prio)

\* _expandGroupsWithPredictedTools; predicted is the array of predicted names
expandGroupsWithPredictedTools(r, predicted) ==
    IF predicted = <<>> THEN r
    ELSE [r EXCEPT !.contents =
              PredictedLoop(r.contents, PredictedCands(r, predicted), ToolCount(r))]

\* a slip: the pass stops after its first expansion
BudgetStepStopsEarly(contents, cands, toolCount) ==
    LET nextCount == NextCount(contents, toolCount, Head(cands)) IN
    IF nextCount > HARD_TOOL_LIMIT
      THEN [contents |-> contents, cands |-> <<>>, toolCount |-> toolCount]
      ELSE [contents |-> Expand(contents, Head(cands)), cands |-> <<>>,
            toolCount |-> nextCount]

\* a slip: the group is expanded before HARD_TOOL_LIMIT is tested
BudgetStepLimitAfter(contents, cands, toolCount) ==
    LET nextCount == NextCount(contents, toolCount, Head(cands)) IN
    IF nextCount > EXPAND_UNTIL_COUNT
      THEN [contents |-> Expand(contents, Head(cands)), cands |-> <<>>,
            toolCount |-> nextCount]
    ELSE [contents |-> Expand(contents, Head(cands)), cands |-> Tail(cands),
          toolCount |-> nextCount]

\* lines 212-225: one iteration of the for loop; a break leaves no candidate
BudgetStep(contents, cands, toolCount) ==
    LET nextCount == NextCount(contents, toolCount, Head(cands)) IN
    IF nextCount > HARD_TOOL_LIMIT
      THEN [contents |-> contents, cands |-> <<>>, toolCount |-> toolCount]
    ELSE IF nextCount > EXPAND_UNTIL_COUNT
      THEN [contents |-> Expand(contents, Head(cands)), cands |-> <<>>,
            toolCount |-> nextCount]
    ELSE [contents |-> Expand(contents, Head(cands)), cands |-> Tail(cands),
          toolCount |-> nextCount]

RECURSIVE BudgetLoop(_, _, _)
\* lines 212-225: the for loop
BudgetLoop(contents, cands, toolCount) ==
    IF cands = <<>> THEN contents
    ELSE LET st == BudgetStep(contents, cands, toolCount) IN
         BudgetLoop(st.contents, st.cands, st.toolCount)

\* a slip: the candidates are left in the order of root.contents
BudgetCandsUnsorted(r) ==
    LET cs == r.contents
        isCand(i) == IsVirtualTool(cs[i]) /\ ~cs[i].isExpanded
    IN SeqFilter([i \in 1..Len(cs) |-> i], {i \in 1..Len(cs) : isCand(i)})

\* lines 207-209: expandable, as indices of root.contents
BudgetCands(r) ==
    LET cs == r.contents
        isCand(i) == IsVirtualTool(cs[i]) /\ ~cs[i].isExpanded
        size == [i \in 1..Len(cs) |-> IF IsVirtualTool(cs[i]) THEN Len(cs[i].contents) ELSE 0]
    IN SortBy(SeqFilter([i \in 1..Len(cs) |-> i], {i \in 1..Len(cs) : isCand(i)}), size)

\* lines 201-204: no need to expand further
BudgetNotNeeded(r) == ToolCount(r) > EXPAND_UNTIL_COUNT

\* _reExpandToolsToHitBudget
reExpandToolsToHitBudget(r) ==
    IF BudgetNotNeeded(r) THEN r
    ELSE [r EXCEPT !.contents = BudgetLoop(r.contents, BudgetCands(r), ToolCount(r))]

(***************************************************************************)
(* Inputs of the model.  Tool names are unique within a list and never     *)
(* start with the synthetic prefix.  The extensions p.foo, q.foo and r.foo *)
(* share the possiblePrefix "foo_".  A session is either one call on one   *)
(* of the wide tool lists or MaxCalls calls on the lists of a conversation *)
(* whose tool set stays the same or shrinks below the grouping threshold.  *)
(***************************************************************************)
MaxCalls == 2
MaxPredicted == 2

B1 == Tool("b1", BuiltinSource)
B2 == Tool("b2", BuiltinSource)
P1 == Tool("p1", ExtSource("p.foo"))
P2 == Tool("p2", ExtSource("p.foo"))
Q1 == Tool("q1", ExtSource("q.foo"))
Q2 == Tool("q2", ExtSource("q.foo"))
R1 == Tool("r1", ExtSource("r.foo"))
R2 == Tool("r2", ExtSource("r.foo"))
M1 == Tool("m1", McpSource("my-srv"))
M2 == Tool("m2", McpSource("my-srv"))
M3 == Tool("m3", McpSource("my-srv"))
M4 == Tool("m4", McpSource("my-srv"))
D1 == Tool("d1", ExtSource("solo"))

WideLists ==
    { <<B1, D1>>,
      <<P1, Q1, P2, Q2, B1, R1, R2>>,
      <<M1, B1, M2, D1, M3>> }

TurnLists ==
    { <<P1, P2>>,
      <<P1, P2, Q1, Q2, B1, B2>> }

\* a conversation in which one toolset loses a tool and gains another
ChangingLists ==
    { <<M1, M2, M3>>,
      <<M2, M3, M4>> }

Sessions ==
    { [toolLists |-> WideLists, maxCalls |-> 1, flags |-> BOOLEAN],
      [toolLists |-> TurnLists, maxCalls |-> MaxCalls, flags |-> BOOLEAN],
      [toolLists |-> ChangingLists, maxCalls |-> MaxCalls, flags |-> {FALSE}] }

CategoryNames == {"x", "y"}

\* the answers of summarizeToolGroup: one category covering the toolset
SummarizeAnswers(tools) ==
    {<<[name |-> n, summary |-> "s", tools |-> tools]>> : n \in CategoryNames}

\* the answers of divideToolsIntoGroups / divideToolsIntoExistingGroups: the
\* toolset split into one or two named categories (one of which may be the
\* uncategorized bucket), every tool in exactly one category
DivideAnswers(tools) ==
    LET names == CategoryNames \cup {UNCATEGORIZED_TOOLS_GROUP_NAME}
        part(S) == SeqFilter(tools, {tools[i] : i \in S})
        ix == 1..Len(tools)
    IN {<<[name |-> n, summary |-> "s", tools |-> tools]>> : n \in names}
       \cup {<<[name |-> t[1], summary |-> "s", tools |-> part(t[3])],
               [name |-> t[2], summary |-> "s", tools |-> part(ix \ t[3])]>> :
                 t \in {u \in names \X names \X SUBSET ix : u[3] # {} /\ u[3] # ix}}

\* what the compute function handed to getOrInsert can produce
OracleAnswers(tools) ==
    IF Len(tools) <= GROUP_WITHIN_TOOLSET THEN SummarizeAnswers(tools)
    ELSE DivideAnswers(tools)

\* what _getPredictedTools can return: names of non-builtin input tools, in
\* the ranker's order
PredictedAnswers(tools) ==
    DistinctSeqsUpTo({tools[i].name : i \in {j \in 1..Len(tools) : tools[j].source.type # "builtin"}},
                     MaxPredicted)

(***************************************************************************)
(* addGroups as a state machine: one action per stretch between awaits.    *)
(***************************************************************************)
NoCall == [tools |-> <<>>, flag |-> FALSE, previousGroups |-> <<>>,
           previousCategorizations |-> <<>>]
\* outcome is that of the call that has just ended: "returned" or "threw",
\* "none" while a call runs and once the tree was touched after it
NoHist == [getOrInsert |-> <<>>, flush |-> 0, outcome |-> "none", prevTools |-> <<>>,
           cache |-> <<>>, resolved |-> <<>>]

\* a slip: categories left without a tool are kept
PrunePreviousKeepsEmpty(previous, tools) ==
    [i \in 1..Len(previous) |->
        [previous[i] EXCEPT
            !.tools = SeqFilter(@, {t \in Range(@) : t.name \in Range(Names(tools))})]]

\* lines 339-344: previous.map(p => ({...p, tools: p.tools.filter(...)}))
\* .filter(p => p.tools.length > 0), which builds new category objects
PrunePrevious(previous, tools) ==
    LET mapped == [i \in 1..Len(previous) |->
                     [previous[i] EXCEPT
                         !.tools = SeqFilter(@, {t \in Range(@) : t.name \in Range(Names(tools))})]]
    IN SeqFilter(mapped, {p \in Range(mapped) : p.tools # <<>>})

\* no oracle request made
NoOracle == [variant |-> "none", previous |-> <<>>]

\* a slip: the previous categorization is tested before it is pruned
ComputeFnTestsUnpruned(tools, hasPrevious, previous) ==
    IF Len(tools) <= GROUP_WITHIN_TOOLSET
      THEN [variant |-> "summarizeToolGroup", previous |-> <<>>]
    ELSE IF hasPrevious /\ previous # <<>>
      THEN [variant |-> "divideToolsIntoExistingGroups",
            previous |-> PrunePrevious(previous, tools)]
      ELSE [variant |-> "divideToolsIntoGroups", previous |-> <<>>]

\* lines 240-244 and 335-348: the oracle request the compute function makes;
\* hasPrevious is FALSE when previousCategorizations.get(key) is undefined
ComputeFn(tools, hasPrevious, previous) ==
    IF Len(tools) <= GROUP_WITHIN_TOOLSET
      THEN [variant |-> "summarizeToolGroup", previous |-> <<>>]
    ELSE LET pruned == IF hasPrevious THEN PrunePrevious(previous, tools) ELSE <<>> IN
         IF pruned # <<>>
           THEN [variant |-> "divideToolsIntoExistingGroups", previous |-> pruned]
           ELSE [variant |-> "divideToolsIntoGroups", previous |-> <<>>]

\* the request of task t in the call in progress
RequestOf(t) ==
    ComputeFn(t.tools, MapHas(call.previousCategorizations, t.key),
              IF MapHas(call.previousCategorizations, t.key)
                THEN MapGet(call.previousCategorizations, t.key) ELSE <<>>)

\* a slip: the toolset-size test of _generateGroupsFromToolset is skipped
StartTaskNoSizeTest(key, tools) ==
    IF key = BUILT_IN_GROUP
      THEN [key |-> key, tools |-> tools, status |-> "resolved", retries |-> 0,
            hasVirts |-> FALSE, value |-> tools, cancelled |-> FALSE,
            oracle |-> NoOracle]
      ELSE [key |-> key, tools |-> tools, status |-> "awaiting", retries |-> 0,
            hasVirts |-> FALSE, value |-> <<>>, cancelled |-> FALSE,
            oracle |-> NoOracle]

\* lines 78-82 and 230-240: the promise a toolset contributes to Promise.all,
\* run to its first await
StartTask(key, tools) ==
    IF key = BUILT_IN_GROUP \/ Len(tools) <= MIN_TOOLSET_SIZE_TO_GROUP
      THEN [key |-> key, tools |-> tools, status |-> "resolved", retries |-> 0,
            hasVirts |-> FALSE, value |-> tools, cancelled |-> FALSE,
            oracle |-> NoOracle]
      ELSE [key |-> key, tools |-> tools, status |-> "awaiting", retries |-> 0,
            hasVirts |-> FALSE, value |-> <<>>, cancelled |-> FALSE,
            oracle |-> NoOracle]

\* the number of getOrInsert calls made so far for each toolset key
CountCall(h, key) ==
    [h EXCEPT !.getOrInsert =
        MapSet(@, key, IF MapHas(@, key) THEN MapGet(@, key) + 1 ELSE 1)]

RECURSIVE CountCallsFirstOnly(_, _)
\* a slip: the tasks are started one after the other, so only the first
\* categorized toolset has an attempt under way at the first await
CountCallsFirstOnly(h, ts) ==
    IF ts = <<>> THEN h
    ELSE IF Head(ts).status = "awaiting" THEN CountCall(h, Head(ts).key)
    ELSE CountCallsFirstOnly(h, Tail(ts))

RECURSIVE CountCalls(_, _)
\* lines 77-83: every task is run to its first await inside the map
\* callback, before Promise.all is awaited
CountCalls(h, ts) ==
    IF ts = <<>> THEN h
    ELSE CountCalls(IF Head(ts).status = "awaiting" THEN CountCall(h, Head(ts).key) ELSE h,
                    Tail(ts))

\* a slip: the list is measured against the threshold of a toolset
ShortCircuitWrongThreshold(tools) == Len(tools) < MIN_TOOLSET_SIZE_TO_GROUP

\* line 51
ShortCircuit(tools) == Len(tools) < START_GROUPING_AFTER_TOOL_COUNT

\* lines 49-83: up to the await of Promise.all
AddGroupsStart(tools, flag) ==
    /\ pc = "idle"
    /\ ncalls < session.maxCalls
    /\ ncalls' = ncalls + 1
    /\ IF ShortCircuit(tools)
         THEN /\ root' = [root EXCEPT !.contents = tools]
              /\ pc' = "idle"
              /\ call' = [NoCall EXCEPT !.tools = tools, !.flag = flag]
              /\ tasks' = <<>>
              /\ hist' = [NoHist EXCEPT !.outcome = "returned", !.prevTools = call.tools,
                                        !.cache = hist.cache]
         ELSE LET by == byToolsetOf(tools)
                  ts == [i \in 1..Len(by) |-> StartTask(by[i].k, by[i].v)]
              IN /\ call' = [tools |-> tools, flag |-> flag,
                             previousGroups |-> previousGroupsOf(root),
                             previousCategorizations |-> previousCategorizationsOf(root)]
                 /\ tasks' = ts
                 /\ hist' = CountCalls([NoHist EXCEPT !.prevTools = call.tools,
                                                      !.cache = hist.cache], ts)
                 /\ pc' = "categorizing"
                 /\ root' = root
    /\ UNCHANGED <<session, varsD, varsE, varsX, varsO>>

\* getOrInsert resolves with a categorization, the one the cache holds for
\* this exact tool list or else the one the oracle computes, which the cache
\* then holds: the loop ends and the task resolves with its groups and
\* uncategorized tools
OracleAnswer(i, virts) ==
    /\ pc = "categorizing"
    /\ tasks[i].status = "awaiting"
    /\ MapHas(hist.cache, tasks[i].tools) => virts = MapGet(hist.cache, tasks[i].tools)
    /\ hist' = [hist EXCEPT !.cache = MapSet(@, tasks[i].tools, virts),
                            !.resolved = Append(@, i)]
    /\ tasks' = [tasks EXCEPT ![i].status = "resolved",
                              ![i].retries = @ + 1,
                              ![i].hasVirts = TRUE,
                              ![i].oracle = IF MapHas(hist.cache, tasks[i].tools)
                                              THEN @ ELSE RequestOf(tasks[i]),
                              ![i].value = ToolsetResult(tasks[i].key, tasks[i].tools, TRUE, virts)]
    /\ UNCHANGED <<root, pc, call, ncalls, session, varsD, varsE, varsX, varsO>>

\* a slip: the loop allows one attempt more
LoopContinuesOneMore(retries) == retries <= MAX_CATEGORIZATION_RETRIES

\* line 238: the loop test after a failed attempt (virts is still unset)
LoopContinues(retries) == retries < MAX_CATEGORIZATION_RETRIES

\* getOrInsert rejects (the oracle failed; a failure is not cached), with a
\* cancellation error or with another error: catch (e) takes either, the
\* attempt is counted, and the loop tries again or, out of retries, the task
\* resolves with its tools
OracleFails(i, cancellation) ==
    /\ pc = "categorizing"
    /\ tasks[i].status = "awaiting"
    /\ ~MapHas(hist.cache, tasks[i].tools)
    /\ IF LoopContinues(tasks[i].retries + 1)
         THEN /\ tasks' = [tasks EXCEPT ![i].retries = @ + 1,
                                        ![i].oracle = RequestOf(tasks[i]),
                                        ![i].cancelled = @ \/ cancellation]
              /\ hist' = CountCall(hist, tasks[i].key)
         ELSE /\ tasks' = [tasks EXCEPT ![i].status = "resolved",
                                        ![i].retries = @ + 1,
                                        ![i].oracle = RequestOf(tasks[i]),
                                        ![i].cancelled = @ \/ cancellation,
                                        ![i].value = ToolsetResult(tasks[i].key, tasks[i].tools, FALSE, <<>>)]
              /\ hist' = [hist EXCEPT !.resolved = Append(@, i)]
    /\ UNCHANGED <<root, pc, call, ncalls, session, varsD, varsE, varsX, varsO>>

\* a slip: the results are collected as the tasks settle, the ones that
\* never awaited first
GroupedInCompletionOrder ==
    LET sync == SeqFilter([i \in 1..Len(tasks) |-> i],
                          {i \in 1..Len(tasks) : i \notin Range(hist.resolved)})
        order == sync \o hist.resolved
    IN Flat([k \in 1..Len(order) |-> tasks[order[k]].value])

\* grouped.flat()
Grouped == Flat([i \in 1..Len(tasks) |-> tasks[i].value])

\* lines 86-97: the tree as published and carried over
Rebuilt ==
    [root EXCEPT !.contents = CarryOver(deduplicateGroups(Grouped), call.previousGroups)]

\* a slip: the cache is not flushed
FlushedNot(h) == h

\* line 85: this._cache.flush()
Flushed(h) == [h EXCEPT !.flush = @ + 1]

\* a slip: the predicted tools are computed whatever the flag
RankingEnabledAlways(c) == TRUE

\* lines 99-101: the configuration flag as read by this call
RankingEnabled(c) == c.flag

\* a slip: Promise.all resolves only once every toolset that entered the
\* retry loop has a result
PromiseAllResolvedNeedsResults ==
    /\ pc = "categorizing"
    /\ \A i \in 1..Len(tasks) :
          /\ tasks[i].status = "resolved"
          /\ tasks[i].retries > 0 => tasks[i].hasVirts

\* lines 77-83: the promise of Promise.all is resolved, every task being
\* resolved
PromiseAllResolved ==
    /\ pc = "categorizing"
    /\ \A i \in 1..Len(tasks) : tasks[i].status = "resolved"

\* lines 85-107 when Promise.all has resolved: flush, publish, carry over,
\* then either await the predicted tools or run the budget pass and return
AllResolved ==
    /\ PromiseAllResolved
    /\ IF RankingEnabled(call)
         THEN /\ root' = Rebuilt
              /\ pc' = "predicting"
              /\ hist' = Flushed(hist)
         ELSE /\ root' = reExpandToolsToHitBudget(Rebuilt)
              /\ pc' = "idle"
              /\ hist' = [Flushed(hist) EXCEPT !.outcome = "returned"]
    /\ UNCHANGED <<call, tasks, ncalls, session, varsD, varsE, varsX, varsO>>

\* lines 102-107: _getPredictedTools resolves; both passes run
PredictedToolsReturn(predicted) ==
    /\ pc = "predicting"
    /\ root' = reExpandToolsToHitBudget(expandGroupsWithPredictedTools(root, predicted))
    /\ pc' = "idle"
    /\ hist' = [hist EXCEPT !.outcome = "returned"]
    /\ UNCHANGED <<call, tasks, ncalls, session, varsD, varsE, varsX, varsO>>

\* line 307: computeEmbeddings rejects and nothing catches it
PredictedToolsThrows ==
    /\ pc = "predicting"
    /\ pc' = "idle"
    /\ hist' = [hist EXCEPT !.outcome = "threw"]
    /\ UNCHANGED <<root, call, tasks, ncalls, session, varsD, varsE, varsX, varsO>>

\* between calls the owner of the tree expands a collapsed top-level group
\* (the language model invoked the virtual tool)
CallerExpands(i) ==
    /\ pc = "idle"
    /\ ncalls < session.maxCalls
    /\ IsVirtualTool(root.contents[i])
    /\ ~root.contents[i].isExpanded
    /\ root' = [root EXCEPT !.contents[i].isExpanded = TRUE]
    /\ hist' = [hist EXCEPT !.outcome = "none"]
    /\ UNCHANGED <<pc, call, tasks, ncalls, session, varsD, varsE, varsX, varsO>>

IdleG ==
    /\ root = [contents |-> <<>>]
    /\ pc = "idle"
    /\ call = NoCall
    /\ tasks = <<>>
    /\ hist = NoHist
    /\ ncalls = 0
IdleD ==
    /\ dIn = <<>> /\ dOut = <<>> /\ dPhase = "off"
    /\ dHeap = NoHeap /\ dAgain = <<>> /\ dTwice = <<>>
IdleE == embeddingsStore = <<>> /\ isInitialized = FALSE /\ emb = [pc |-> "off"]
IdleX == xp = [pc |-> "off"]
IdleO == boot = [pc |-> "off"] /\ ep = [pc |-> "off"] /\ lg = [pc |-> "off"]


Init ==
    /\ IdleG
    /\ session \in Sessions
    /\ IdleD
    /\ IdleE
    /\ IdleX
    /\ IdleO

Next ==
    \/ \E tools \in session.toolLists, flag \in session.flags : AddGroupsStart(tools, flag)
    \/ \E i \in 1..Len(tasks) : \E virts \in OracleAnswers(tasks[i].tools) : OracleAnswer(i, virts)
    \/ \E i \in 1..Len(tasks), cancellation \in BOOLEAN : OracleFails(i, cancellation)
    \/ AllResolved
    \/ \E predicted \in PredictedAnswers(call.tools) : PredictedToolsReturn(predicted)
    \/ PredictedToolsThrows
    \/ \E i \in 1..Len(root.contents) : CallerExpands(i)

Spec == Init /\ [][Next]_vars

\* a getOrInsert call is awaited
AnyAwaiting ==
    /\ pc = "categorizing"
    /\ \E i \in 1..Len(tasks) : tasks[i].status = "awaiting"

\* addGroups is suspended on a promise that has settled (Promise.all) or
\* on the promise of _getPredictedTools
Resumable == PromiseAllResolved \/ pc = "predicting"

\* addGroups under the assumptions of the claim: an awaited call to the
\* oracle or the cache settles (a task then moves: it resolves, or it counts
\* a failed attempt), and the continuation of addGroups is run once the
\* promise it awaits has settled, the promise of _getPredictedTools
\* settling as well.  Each is weak fairness of the steps in question,
\* WF_vars(A) written as []<>~ENABLED <<A>>_vars \/ []<><<A>>_vars with the
\* enabling condition spelled out.
SpecLive ==
    /\ Init
    /\ [][Next]_vars
    /\ ([]<>~AnyAwaiting \/ []<><<tasks' # tasks>>_vars)
    /\ ([]<>~Resumable \/ []<><<pc' # pc>>_vars)

(***************************************************************************)
(* deduplicateGroups as a pure function of a bounded input list.           *)
(***************************************************************************)
MaxDedupLen == 3

DGroup(name, prefix, leaf) ==
    VirtualTool(name, "d", 0, Metadata("ext_p.foo", <<>>, prefix),
                <<Tool(leaf, ExtSource("p.foo"))>>)

DedupItems ==
    { DGroup("activate_x", "foo_", "a"),
      DGroup("activate_x", "foo_", "b"),
      DGroup("activate_x", "foo_", "c"),
      DGroup("activate_x", "bar_", "d"),
      DGroup("activate_foo_x", "foo_", "e"),
      DGroup("activate_x", "", "f"),
      Tool("t1", BuiltinSource),
      Tool("activate_x", BuiltinSource) }

InitDedup ==
    /\ IdleG
    /\ session = [toolLists |-> {}, maxCalls |-> 0, flags |-> {}]
    /\ dIn \in SeqsUpTo(DedupItems, MaxDedupLen)
    /\ dOut = <<>>
    /\ dPhase = "in"
    /\ dHeap = HeapOf(dIn)
    /\ dAgain = <<>>
    /\ dTwice = <<>>
    /\ IdleE
    /\ IdleX
    /\ IdleO

Deduplicate ==
    /\ dPhase = "in"
    /\ dOut' = deduplicateGroups(dIn)
    /\ dHeap' = deduplicateGroupsRefs(dHeap)
    /\ dPhase' = "done"
    /\ UNCHANGED <<dIn, dAgain, dTwice, varsG, varsE, varsX, varsO>>

\* a second call with the same array, on the objects as the first call
\* left them
DeduplicateAgain ==
    /\ dPhase = "done"
    /\ LET st == deduplicateGroupsRefs(dHeap) IN
         /\ dHeap' = st
         /\ dAgain' = Deref(st.objects, MapValues(st.seen))
    /\ dPhase' = "again"
    /\ UNCHANGED <<dIn, dOut, dTwice, varsG, varsE, varsX, varsO>>

\* deduplicateGroups(deduplicateGroups(x)): a call on the array the first
\* call returned
DeduplicateOutput ==
    /\ dPhase = "done"
    /\ dTwice' = deduplicateGroups(dOut)
    /\ dPhase' = "twice"
    /\ UNCHANGED <<dIn, dOut, dHeap, dAgain, varsG, varsE, varsX, varsO>>

NextDedup == Deduplicate \/ DeduplicateAgain \/ DeduplicateOutput

SpecDedup == InitDedup /\ [][NextDedup]_vars

(***************************************************************************)
(* ToolEmbeddingsComputer.retrieveSimilarEmbeddingsForAvailableTools.      *)
(* embeddingsStore is the Map name -> Embedding; an Embedding is known by  *)
(* where it came from and the name it was computed for.  emb holds the     *)
(* call in progress: its arguments, its token, and what it asked of the    *)
(* snapshot, the embedding service and the ranker.                         *)
(***************************************************************************)
MaxEmbCalls == 2

EmbNames == {"t1", "t2", "t3"}

Embedding(from, name) == [from |-> from, name |-> name]

\* the precomputed snapshots getEmbeddings() can resolve with
Snapshots ==
    { <<>>,
      <<[k |-> "t1", v |-> Embedding("snapshot", "t1")]>>,
      <<[k |-> "t3", v |-> Embedding("snapshot", "t3")],
        [k |-> "t1", v |-> Embedding("snapshot", "t1")]>> }

\* the availableToolNames sets of the calls, in insertion order
AvailableInputs == DistinctSeqsUpTo(EmbNames, 2) \cup {<<"t2", "t3", "t1">>}

Counts == {1, 2}

\* the vectors computeEmbeddings resolves with when it answers a request in
\* full, aligned with the requested names
FullAnswer(names) == [i \in 1..Len(names) |-> Embedding("service", names[i])]

\* what computeEmbeddings can resolve with: the full answer, one vector too
\* few, one too many, no vector, or undefined
ServiceAnswers(names) ==
    { [defined |-> TRUE, values |-> FullAnswer(names)],
      [defined |-> TRUE, values |-> SubSeq(FullAnswer(names), 1, Len(names) - 1)],
      [defined |-> TRUE, values |-> Append(FullAnswer(names), Embedding("service", "extra"))],
      [defined |-> TRUE, values |-> <<>>],
      [defined |-> FALSE, values |-> <<>>] }

\* what rankEmbeddings can return for a corpus: min(count, size) of its
\* keys, in the order of the distances
RankAnswers(corpus, count) ==
    {r \in DistinctSeqsUpTo({corpus[i][1] : i \in 1..Len(corpus)}, count) :
        Len(r) = Min(count, Len(corpus))}

RECURSIVE StoreAll(_, _)
\* for (const [toolName, embedding] of entries) embeddingsStore.set(...)
StoreAll(store, entries) ==
    IF entries = <<>> THEN store
    ELSE StoreAll(MapSet(store, Head(entries)[1], Head(entries)[2]), Tail(entries))

\* a slip: the corpus is every entry of the store
getAvailableToolEmbeddingsWholeStore(store, availableToolNames) ==
    [i \in 1..Len(store) |-> <<store[i].k, store[i].v>>]

RECURSIVE getAvailableToolEmbeddings(_, _)
\* lines 169-180
getAvailableToolEmbeddings(store, availableToolNames) ==
    IF availableToolNames = <<>> THEN <<>>
    ELSE (IF MapHas(store, Head(availableToolNames))
            THEN <<<<Head(availableToolNames), MapGet(store, Head(availableToolNames))>>>>
            ELSE <<>>)
         \o getAvailableToolEmbeddings(store, Tail(availableToolNames))

\* a slip: every name is asked for again, whether the store holds it or not
missingToolsOfAll(store, toolNames) == toolNames

RECURSIVE missingToolsOfReversed(_, _)
\* a slip: unshift in place of push
missingToolsOfReversed(store, toolNames) ==
    IF toolNames = <<>> THEN <<>>
    ELSE missingToolsOfReversed(store, Tail(toolNames))
         \o (IF MapHas(store, Head(toolNames)) THEN <<>> ELSE <<Head(toolNames)>>)

RECURSIVE missingToolsOf(_, _)
\* lines 119-124
missingToolsOf(store, toolNames) ==
    IF toolNames = <<>> THEN <<>>
    ELSE (IF MapHas(store, Head(toolNames)) THEN <<>> ELSE <<Head(toolNames)>>)
         \o missingToolsOf(store, Tail(toolNames))

\* a slip: the test for an empty list of missing names is left out
NeedsServiceNoEmptyTest(cancelled, missing) == ~cancelled

\* lines 115-117, 133 and 153: whether ensureToolEmbeddings reaches the
\* embedding service
NeedsService(cancelled, missing) == ~cancelled /\ missing # <<>>

\* a slip: an answer of the wrong length is used as far as it goes
computedEntriesPartial(toolNames, answer) ==
    [i \in 1..Min(Len(toolNames), Len(answer.values)) |-> <<toolNames[i], answer.values[i]>>]

\* lines 159-163: the entries computeEmbeddingsForTools returns, <<>> for
\* undefined
computedEntries(toolNames, answer) ==
    IF ~answer.defined \/ Len(answer.values) = 0 \/ Len(answer.values) # Len(toolNames)
      THEN <<>>
      ELSE [i \in 1..Len(toolNames) |-> <<toolNames[i], answer.values[i]>>]

\* no answer of the embedding service yet in this call
NoAnswer == [kind |-> "none", values |-> <<>>]

\* catches tells which of the two versions of computeMissingEmbeddings runs:
\* the one that wraps the service call in try/catch or the one that does not
IdleEmb == [pc |-> "off", availableToolNames |-> <<>>, count |-> 0, cancelled |-> FALSE,
            snapshot |-> <<>>, loads |-> 0, requested |-> <<>>, corpora |-> <<>>,
            ranked |-> <<>>, result |-> <<>>, logged |-> FALSE, ncalls |-> 0,
            answer |-> NoAnswer, outcome |-> "none", catches |-> TRUE,
            loadFailed |-> FALSE]

\* ensureToolEmbeddings up to its await, once the store is seeded
EnsureToolEmbeddings(e, store) ==
    LET missing == missingToolsOf(store, e.availableToolNames) IN
    IF NeedsService(e.cancelled, missing)
      THEN [e EXCEPT !.pc = "computing", !.requested = Append(@, missing)]
      ELSE [e EXCEPT !.pc = "ranking"]

\* lines 78-80 and 98-103: the call starts; it awaits the snapshot unless the
\* computer is initialized
RetrieveStart(availableToolNames, count, cancelled) ==
    /\ emb.pc \in {"off", "done"}
    /\ emb.ncalls < MaxEmbCalls
    /\ LET e == [emb EXCEPT !.availableToolNames = availableToolNames, !.count = count,
                            !.cancelled = cancelled, !.requested = <<>>, !.corpora = <<>>,
                            !.ranked = <<>>, !.result = <<>>, !.logged = FALSE,
                            !.answer = NoAnswer, !.outcome = "none",
                            !.ncalls = @ + 1]
       IN IF isInitialized
            THEN emb' = EnsureToolEmbeddings(e, embeddingsStore)
            ELSE emb' = [e EXCEPT !.pc = "init", !.loads = @ + 1]
    /\ UNCHANGED <<embeddingsStore, isInitialized, varsG, varsD, varsX, varsO>>

\* lines 103-108, then ensureToolEmbeddings
SnapshotLoaded ==
    /\ emb.pc = "init"
    /\ LET store == StoreAll(embeddingsStore,
                             [i \in 1..Len(emb.snapshot) |-> <<emb.snapshot[i].k, emb.snapshot[i].v>>])
       IN /\ embeddingsStore' = store
          /\ isInitialized' = TRUE
          /\ emb' = EnsureToolEmbeddings(emb, store)
    /\ UNCHANGED <<varsG, varsD, varsX, varsO>>

\* a slip: loadEmbeddings has no try/catch, so the rejection of getCache
\* leaves getEmbeddings, ensureInitialized and the call
SnapshotLoadFailsUncaught ==
    /\ emb.pc = "init"
    /\ emb.catches
    /\ emb' = [emb EXCEPT !.pc = "done", !.outcome = "threw", !.loadFailed = TRUE]
    /\ UNCHANGED <<embeddingsStore, isInitialized, varsG, varsD, varsX, varsO>>

\* part_002 lines 38 and 53-56, then 103-108: cache.getCache() rejects; the
\* error is logged, loadEmbeddings returns an empty map, the store is
\* seeded with nothing and the computer is initialized; then
\* ensureToolEmbeddings.  (The loader of toolEmbeddingsCache.ts reads no
\* remote cache: it imports a module bundled with the extension.)
SnapshotLoadFails ==
    /\ emb.pc = "init"
    /\ emb.catches
    /\ embeddingsStore' = StoreAll(embeddingsStore, <<>>)
    /\ isInitialized' = TRUE
    /\ emb' = EnsureToolEmbeddings([emb EXCEPT !.loadFailed = TRUE], embeddingsStore')
    /\ UNCHANGED <<varsG, varsD, varsX, varsO>>

\* lines 138-143: computeEmbeddings resolves
ServiceReturns ==
    /\ emb.pc = "computing"
    /\ \E answer \in ServiceAnswers(emb.requested[Len(emb.requested)]) :
          /\ embeddingsStore' =
                StoreAll(embeddingsStore, computedEntries(emb.requested[Len(emb.requested)], answer))
          /\ emb' = [emb EXCEPT !.pc = "ranking",
                                !.answer = [kind |-> IF answer.defined THEN "values" ELSE "undefined",
                                            values |-> answer.values]]
    /\ UNCHANGED <<isInitialized, varsG, varsD, varsX, varsO>>

\* part_002 lines 144-146: computeEmbeddings rejects; the error is caught and
\* logged
ServiceThrows ==
    /\ emb.pc = "computing"
    /\ emb.catches
    /\ emb' = [emb EXCEPT !.pc = "ranking", !.logged = TRUE,
                          !.answer = [kind |-> "threw", values |-> <<>>]]
    /\ UNCHANGED <<embeddingsStore, isInitialized, varsG, varsD, varsX, varsO>>

\* toolEmbeddingsCache.ts lines 128-139 and 76: computeEmbeddings rejects and
\* nothing catches it; the rejection leaves computeMissingEmbeddings,
\* ensureToolEmbeddings and retrieveSimilarEmbeddingsForAvailableTools
ServiceThrowsUncaught ==
    /\ emb.pc = "computing"
    /\ ~emb.catches
    /\ emb' = [emb EXCEPT !.pc = "done", !.outcome = "threw",
                          !.answer = [kind |-> "threw", values |-> <<>>]]
    /\ UNCHANGED <<embeddingsStore, isInitialized, varsG, varsD, varsX, varsO>>

\* the caller cancels the token while the call is suspended
CancelRetrieve ==
    /\ emb.pc \in {"init", "computing"}
    /\ ~emb.cancelled
    /\ emb' = [emb EXCEPT !.cancelled = TRUE]
    /\ UNCHANGED <<embeddingsStore, isInitialized, varsG, varsD, varsX, varsO>>

\* lines 82-92
RankAndReturn ==
    /\ emb.pc = "ranking"
    /\ LET availableEmbeddings == getAvailableToolEmbeddings(embeddingsStore, emb.availableToolNames) IN
       IF emb.cancelled \/ Len(availableEmbeddings) = 0
         THEN emb' = [emb EXCEPT !.pc = "done", !.outcome = "returned", !.result = <<>>]
         ELSE \E ranked \in RankAnswers(availableEmbeddings, emb.count) :
                 emb' = [emb EXCEPT !.pc = "done",
                                    !.outcome = "returned",
                                    !.corpora = Append(@, availableEmbeddings),
                                    !.ranked = ranked,
                                    !.result = ranked]
    /\ UNCHANGED <<embeddingsStore, isInitialized, varsG, varsD, varsX, varsO>>

InitEmb ==
    /\ IdleG
    /\ session = [toolLists |-> {}, maxCalls |-> 0, flags |-> {}]
    /\ IdleD
    /\ IdleX
    /\ IdleO
    /\ embeddingsStore = <<>>
    /\ isInitialized = FALSE
    /\ \E snapshot \in Snapshots, catches \in BOOLEAN :
          emb = [IdleEmb EXCEPT !.snapshot = snapshot, !.catches = catches]

NextEmb ==
    \/ \E a \in AvailableInputs, n \in Counts, c \in BOOLEAN : RetrieveStart(a, n, c)
    \/ SnapshotLoaded
    \/ SnapshotLoadFails
    \/ ServiceReturns
    \/ ServiceThrows
    \/ ServiceThrowsUncaught
    \/ CancelRetrieve
    \/ RankAndReturn

SpecEmb == InitEmb /\ [][NextEmb]_vars

(***************************************************************************)
(* The two expansion passes on a bounded tree, one action per loop         *)
(* iteration.  The trees are those addGroups builds: top-level leaves and  *)
(* groups of leaves, a group expanded or not.                              *)
(***************************************************************************)
MaxExpandLen == 3
MaxExpandPredicted == 3

XGroup(name, leaves, isExpanded) ==
    [VirtualTool(VIRTUAL_TOOL_NAME_PREFIX \o name, "d", 0, Metadata("mcp_x", <<>>, "x_"),
                 [i \in 1..Len(leaves) |-> Tool(leaves[i], McpSource("x"))])
        EXCEPT !.isExpanded = isExpanded]

ExpandItems ==
    { XGroup("a", <<"a1">>, FALSE),
      XGroup("b", <<"b1", "b2">>, FALSE),
      XGroup("c", <<"c1", "c2", "c3">>, FALSE),
      XGroup("d", <<"d1", "d2", "d3", "d4">>, FALSE),
      XGroup("e", <<"e1", "e2">>, TRUE),
      Tool("l1", BuiltinSource) }

ExpandTrees == {[contents |-> cs] : cs \in DistinctSeqsUpTo(ExpandItems, MaxExpandLen)}

ExpandPredicted == DistinctSeqsUpTo({"a1", "b2", "d1"}, MaxExpandPredicted)

\* a pass at its start: no candidates taken yet
PassStart(x, name, cands) ==
    [x EXCEPT !.pc = name, !.start = x.root, !.all = cands, !.cands = cands,
              !.toolCount = ToolCount(x.root), !.expanded = <<>>]

\* one loop iteration st applied to the pass
PassStep(x, st) ==
    [x EXCEPT !.root.contents = st.contents,
              !.cands = st.cands,
              !.toolCount = st.toolCount,
              !.expanded = IF st.contents # x.root.contents
                             THEN Append(@, Head(x.cands)) ELSE @]

InitExpand ==
    /\ IdleG
    /\ session = [toolLists |-> {}, maxCalls |-> 0, flags |-> {}]
    /\ IdleD
    /\ IdleE
    /\ IdleO
    /\ \E r \in ExpandTrees, predicted \in ExpandPredicted :
          xp = [pc |-> "start", input |-> r, root |-> r, predicted |-> predicted,
                start |-> r, all |-> <<>>, cands |-> <<>>, toolCount |-> 0,
                expanded |-> <<>>]

\* lines 138-178: _expandGroupsWithPredictedTools up to its for loop
QueryPassStart ==
    /\ xp.pc = "start"
    /\ xp' = PassStart(xp, "query",
                       IF xp.predicted = <<>> THEN <<>>
                       ELSE PredictedCands(xp.root, xp.predicted))
    /\ UNCHANGED <<varsG, varsD, varsE, varsO>>

\* lines 181-190: one iteration
QueryPassStep ==
    /\ xp.pc = "query"
    /\ xp.cands # <<>>
    /\ xp' = PassStep(xp, PredictedStep(xp.root.contents, xp.cands, xp.toolCount))
    /\ UNCHANGED <<varsG, varsD, varsE, varsO>>

\* line 191: the pass returns
QueryPassEnd ==
    /\ xp.pc = "query"
    /\ xp.cands = <<>>
    /\ xp' = [xp EXCEPT !.pc = "queried"]
    /\ UNCHANGED <<varsG, varsD, varsE, varsO>>

\* lines 200-209: _reExpandToolsToHitBudget up to its for loop
BudgetPassStart ==
    /\ xp.pc = "queried"
    /\ xp' = IF BudgetNotNeeded(xp.root) THEN PassStart(xp, "done", <<>>)
             ELSE PassStart(xp, "budget", BudgetCands(xp.root))
    /\ UNCHANGED <<varsG, varsD, varsE, varsO>>

\* lines 212-225: one iteration
BudgetPassStep ==
    /\ xp.pc = "budget"
    /\ xp.cands # <<>>
    /\ xp' = PassStep(xp, BudgetStep(xp.root.contents, xp.cands, xp.toolCount))
    /\ UNCHANGED <<varsG, varsD, varsE, varsO>>

\* line 226: the pass returns
BudgetPassEnd ==
    /\ xp.pc = "budget"
    /\ xp.cands = <<>>
    /\ xp' = [xp EXCEPT !.pc = "done"]
    /\ UNCHANGED <<varsG, varsD, varsE, varsO>>

NextExpand ==
    \/ QueryPassStart
    \/ QueryPassStep
    \/ QueryPassEnd
    \/ BudgetPassStart
    \/ BudgetPassStep
    \/ BudgetPassEnd

SpecExpand == InitExpand /\ [][NextExpand]_vars

(***************************************************************************)
(* Properties.                                                             *)
(***************************************************************************)
\* addGroups has just returned normally
Completed == pc = "idle" /\ hist.outcome = "returned"

\* root.contents has been replaced by the call whose tasks are in `tasks`
Published == tasks # <<>> /\ (pc = "predicting" \/ (pc = "idle" /\ ncalls > 0))

Distinct(s) == \A i, j \in 1..Len(s) : i # j => s[i] # s[j]

\* C1: after addGroups completes, the number of visible items of root is at
\* most HARD_TOOL_LIMIT.
C1_VisibleWithinHardLimit ==
    Completed => ToolCount(root) <= HARD_TOOL_LIMIT

\* C2: after addGroups completes, every tool of the input list is in the
\* tree, as an entry of root.contents or as a leaf under one of its groups.
C2_NoToolDropped ==
    Completed => \A i \in 1..Len(call.tools) : call.tools[i] \in Range(AllOf(root.contents))

\* the task of a categorized toolset ended its retry loop without a result
Exhausted(i) ==
    /\ tasks[i].status = "resolved"
    /\ tasks[i].retries = MAX_CATEGORIZATION_RETRIES
    /\ ~tasks[i].hasVirts

TopLevelTool(t) == \E j \in 1..Len(root.contents) : root.contents[j] = t

C4_ShortListUnchanged ==
    (Completed /\ Len(call.tools) < START_GROUPING_AFTER_TOOL_COUNT)
        => root.contents = call.tools

C4_Witness ==
    /\ Completed
    /\ ncalls = 2
    /\ Len(hist.prevTools) >= START_GROUPING_AFTER_TOOL_COUNT
    /\ Len(call.tools) < START_GROUPING_AFTER_TOOL_COUNT
    /\ Len(call.tools) > 0
    /\ root.contents = call.tools

Reinvoked == Completed /\ ncalls >= 2 /\ call.tools = hist.prevTools

\* C5: re-invoking addGroups with an unchanged tool list leaves every group
\* that was expanded before the call expanded after it: for each expanded
\* group of the previous tree, the new tree has an expanded top-level group
\* holding the same tools.
C5_ExpansionPreserved ==
    Reinvoked =>
        \A j \in 1..Len(call.previousGroups) :
            call.previousGroups[j].v.isExpanded =>
                \E i \in 1..Len(root.contents) :
                    /\ IsVirtualTool(root.contents[i])
                    /\ root.contents[i].contents = call.previousGroups[j].v.contents
                    /\ root.contents[i].isExpanded

\* C6: the list returned by deduplicateGroups holds no two entries with the
\* same name.
C6_DedupNamesDistinct ==
    dPhase = "done" => Distinct(Names(dOut))

C6_Witness ==
    /\ dPhase = "done"
    /\ ~Distinct(Names(dIn))
    /\ Len(dOut) = Len(dIn)
    /\ Len(dIn) = 3

RECURSIVE KeptIsPrefixedGroup(_, _)
\* at each name collision of the loop the already-kept item is a group with
\* a possiblePrefix
KeptIsPrefixedGroup(seen, grouped) ==
    IF grouped = <<>> THEN TRUE
    ELSE /\ MapHas(seen, Head(grouped).name) =>
                LET saw == MapGet(seen, Head(grouped).name) IN
                IsVirtualTool(saw) /\ saw.metadata.possiblePrefix # ""
         /\ KeptIsPrefixedGroup(DedupStep(seen, Head(grouped)), Tail(grouped))

\* C7: when at each name collision the already-kept item is a group with a
\* possiblePrefix, deduplicateGroups returns as many items as it was given.
C7_DedupDropsNothing ==
    (dPhase = "done" /\ KeptIsPrefixedGroup(<<>>, dIn)) => Len(dOut) = Len(dIn)

\* the toolsets of the call that are never sent to the oracle
PassedThrough(i) ==
    tasks[i].key = BUILT_IN_GROUP \/ Len(tasks[i].tools) <= MIN_TOOLSET_SIZE_TO_GROUP

\* C8: getOrInsert is called only for non-builtin toolsets larger than
\* MIN_TOOLSET_SIZE_TO_GROUP; the tools of the builtin toolset and of every
\* smaller toolset are top-level entries of the published tree.
C8_OracleOnlyForLargeToolsets ==
    /\ \A c \in 1..Len(hist.getOrInsert) :
          \E i \in 1..Len(tasks) :
              tasks[i].key = hist.getOrInsert[c].k /\ ~PassedThrough(i)
    /\ \A i \in 1..Len(tasks) :
          PassedThrough(i) =>
              /\ ~tasks[i].hasVirts
              /\ tasks[i].retries = 0
              /\ Published =>
                    \A k \in 1..Len(tasks[i].tools) : TopLevelTool(tasks[i].tools[k])

C8_Witness ==
    /\ Completed
    /\ \E i \in 1..Len(tasks) : tasks[i].key = BUILT_IN_GROUP
    /\ \E i \in 1..Len(tasks) :
          tasks[i].key # BUILT_IN_GROUP /\ PassedThrough(i)
    /\ \E i \in 1..Len(tasks) : tasks[i].hasVirts /\ MapGet(hist.getOrInsert, tasks[i].key) = 1

Keys(m) == [i \in 1..Len(m) |-> m[i].k]

EmbDone == emb.pc = "done"

\* C9: the call returns the keys the ranker returned, in its order, and the
\* corpus handed to the ranker is made of the names of availableToolNames
\* that have a vector in the store, with that vector, and of no other name.
C9_ReturnsRankerKeysOverAvailableCorpus ==
    (EmbDone /\ emb.corpora # <<>>) =>
        /\ Len(emb.corpora) = 1
        /\ emb.result = emb.ranked
        /\ LET corpus == emb.corpora[1] IN
           /\ [i \in 1..Len(corpus) |-> corpus[i][1]]
                 = SeqFilter(emb.availableToolNames, Range(Keys(embeddingsStore)))
           /\ \A i \in 1..Len(corpus) : corpus[i][2] = MapGet(embeddingsStore, corpus[i][1])

C9_Witness ==
    /\ EmbDone
    /\ emb.corpora # <<>>
    /\ emb.requested # <<>>
    /\ Len(emb.result) >= 1
    /\ \E n \in Range(Keys(embeddingsStore)) : n \notin Range(emb.availableToolNames)
    /\ \E n \in Range(emb.availableToolNames) : n \notin Range(Keys(embeddingsStore))

\* C10: a call with an empty availableToolNames returns the empty list and
\* makes no call to the embedding service (nor to the ranker), whatever the
\* store holds.
C10_EmptyAvailableReturnsEmpty ==
    (EmbDone /\ emb.availableToolNames = <<>>) =>
        emb.result = <<>> /\ emb.requested = <<>> /\ emb.corpora = <<>>

C10_Witness ==
    /\ EmbDone
    /\ emb.availableToolNames = <<>>
    /\ ~emb.cancelled
    /\ Len(embeddingsStore) >= 2

\* the step issues a call to the embedding service
ServiceRequested == emb'.requested # emb.requested /\ emb'.requested # <<>>

\* every entry of the store is in the store after the step, unchanged
StoreKept ==
    \A i \in 1..Len(embeddingsStore) :
        /\ MapHas(embeddingsStore', embeddingsStore[i].k)
        /\ MapGet(embeddingsStore', embeddingsStore[i].k) = embeddingsStore[i].v

\* C11: a vector written to the store stays in it, unchanged, for the life
\* of the computer, and a call whose availableToolNames all have a vector in
\* the store makes no call to the embedding service: whenever the service
\* is called, some name of availableToolNames has no vector in the store.
C11_ComputedVectorsKept ==
    [][/\ StoreKept
       /\ ServiceRequested =>
             \E n \in Range(emb'.availableToolNames) : ~MapHas(embeddingsStore', n)]_vars

C11_Witness ==
    /\ EmbDone
    /\ emb.ncalls = 2
    /\ emb.requested = <<>>
    /\ emb.result # <<>>
    /\ \E n \in Range(emb.availableToolNames) :
          MapHas(embeddingsStore, n) /\ MapGet(embeddingsStore, n).from = "service"

\* C12: within one call the embedding service is called at most once; when
\* it is called the names requested are the names of availableToolNames
\* that are not in the store, in the order of availableToolNames, and there
\* is at least one; once the service has answered or failed the call makes
\* no further request.
C12_OneBatchOfMissingNames ==
    [][/\ Len(emb'.requested) <= 1
       /\ ServiceRequested =>
             /\ emb'.requested[1] # <<>>
             /\ emb'.requested[1] =
                   SeqFilter(emb'.availableToolNames, EmbNames \ Range(Keys(embeddingsStore')))
       /\ (emb.pc \in {"ranking", "done"} /\ emb'.ncalls = emb.ncalls) =>
             emb'.requested = emb.requested]_vars

C12_Witness ==
    /\ EmbDone
    /\ emb.outcome = "returned"
    /\ emb.answer.kind = "threw"
    /\ Len(emb.availableToolNames) = 3
    /\ Len(emb.requested) = 1
    /\ Len(emb.requested[1]) = 2

\* the service answered the batch, with a number of vectors that is not the
\* number of names requested (no result counts as no vector)
WrongCount ==
    /\ emb.answer.kind \in {"values", "undefined"}
    /\ Len(emb.answer.values) # Len(emb.requested[1])

\* C13: when the service answers a batch with a number of vectors different
\* from the number of names requested, the store is left unchanged, and when
\* the call returns none of the requested names is in the store, in the
\* corpus or in the result.
C13_WrongCountIsTotalFailure ==
    [][/\ (emb.pc = "computing" /\ emb'.answer.kind \in {"values", "undefined"}
              /\ Len(emb'.answer.values) # Len(emb.requested[1]))
          => embeddingsStore' = embeddingsStore
       /\ (emb'.pc = "done" /\ emb'.answer.kind \in {"values", "undefined"}
              /\ Len(emb'.answer.values) # Len(emb'.requested[1]))
          => \A n \in Range(emb'.requested[1]) :
                /\ ~MapHas(embeddingsStore', n)
                /\ n \notin Range(emb'.result)
                /\ \A c \in 1..Len(emb'.corpora) :
                      \A i \in 1..Len(emb'.corpora[c]) : emb'.corpora[c][i][1] # n]_vars

C13_Witness ==
    /\ EmbDone
    /\ WrongCount
    /\ emb.answer.values # <<>>
    /\ Len(emb.requested[1]) = 2
    /\ emb.result # <<>>

\* C14: when the embedding service throws while the missing vectors are
\* computed, the call returns normally: the names requested are not in the
\* corpus and the result is the ranking of the names that have a vector.
C14_ServiceFailureNotThrown ==
    (EmbDone /\ emb.answer.kind = "threw") =>
        /\ emb.outcome = "returned"
        /\ emb.result = emb.ranked
        /\ \A c \in 1..Len(emb.corpora) :
              \A i \in 1..Len(emb.corpora[c]) :
                  emb.corpora[c][i][1] \notin Range(emb.requested[1])

\* C15: a call whose token is cancelled before ranking starts returns the
\* empty list without throwing and without calling the ranker, and the
\* embedding service is never called once the token is cancelled.
C15_CancelledReturnsEmpty ==
    [][/\ (emb'.pc = "done" /\ emb'.cancelled) =>
             /\ emb'.outcome = "returned"
             /\ emb'.result = <<>>
             /\ emb'.corpora = <<>>
       /\ ServiceRequested => ~emb'.cancelled]_vars

\* the addGroups call has ended, by a return or by an exception
Ended == pc = "idle" /\ hist.outcome # "none"

\* C16: with the ranking flag enabled, addGroups returns normally whatever
\* the embedding service does, and the budget-driven pass has run on the
\* tree it leaves.
C16_EmbeddingFailureNotFatal ==
    (Ended /\ call.flag) =>
        /\ hist.outcome = "returned"
        /\ root = reExpandToolsToHitBudget(root)

\* C17: once an oracle call of a toolset has failed with a cancellation
\* error, the toolset's task is rejected with that error: it neither waits
\* for another oracle call nor resolves.
C17_CancellationPropagated ==
    \A i \in 1..Len(tasks) : tasks[i].cancelled => tasks[i].status = "rejected"

\* C18 as stated: every invocation of addGroups has called flush() exactly
\* once when it ends, and not before its tasks have resolved.
C18_FlushOncePerCall ==
    /\ pc = "categorizing" => hist.flush = 0
    /\ pc = "predicting" => hist.flush = 1
    /\ Ended => hist.flush = 1

\* the number of flush() calls an invocation has made at each of its points
FlushCount ==
    /\ pc = "categorizing" => hist.flush = 0
    /\ pc = "predicting" => hist.flush = 1
    /\ Ended => hist.flush = IF ShortCircuit(call.tools) THEN 0 ELSE 1

\* C18 amended: an invocation that takes the grouping path calls flush()
\* exactly once, in the step that replaces root.contents, when every task
\* has resolved; an invocation on a list below
\* START_GROUPING_AFTER_TOOL_COUNT never calls it.
C18_FlushOncePerGroupingCall ==
    [][/\ FlushCount'
       /\ (pc = "categorizing" /\ root' # root) =>
             /\ hist.flush = 0
             /\ hist'.flush = 1
             /\ \A i \in 1..Len(tasks) : tasks[i].status = "resolved"]_vars

C18_Witness ==
    /\ Completed
    /\ ncalls = 2
    /\ Len(hist.prevTools) >= START_GROUPING_AFTER_TOOL_COUNT
    /\ ~ShortCircuit(call.tools)
    /\ \E i \in 1..Len(tasks) : tasks[i].retries = MAX_CATEGORIZATION_RETRIES
    /\ hist.flush = 1

\* C19: while addGroups is suspended root holds the tree of the previous
\* call or the finished tree of this call: root does not change while the
\* tasks are awaited, and the tree that is in root while the predicted tools
\* are awaited is the tree the call leaves.
C19_SinglePublishPoint ==
    [][/\ (pc = "categorizing" /\ pc' = "categorizing") => root' = root
       /\ pc = "predicting" => root' = root]_vars

\* C20: deduplicateGroups leaves its argument array and every object the
\* array refers to as they were (a renamed group is a new object), and a
\* second call on the same input returns the same names in the same order.
C20_DedupPure ==
    /\ dPhase \in {"done", "again"} =>
          /\ Deref(dHeap.objects, dHeap.grouped) = dIn
          /\ SubSeq(dHeap.objects, 1, Len(dIn)) = dIn
    /\ dPhase = "again" => Names(dAgain) = Names(dOut)

C20_Witness ==
    /\ dPhase = "again"
    /\ Len(dIn) = MaxDedupLen
    /\ Len(dHeap.objects) > Len(dIn) + 1
    /\ Names(dOut) # Names(dIn)
    /\ Names(dAgain) = Names(dOut)

\* the number of getOrInsert calls history h records for a toolset key
CallsOf(h, key) == IF MapHas(h.getOrInsert, key) THEN MapGet(h.getOrInsert, key) ELSE 0

\* the attempts of task i that were issued and have not settled
InFlight(h, t) == CallsOf(h, t.key) - t.retries

\* what C21 says of one task t under history h
AttemptsBounded(h, t) ==
    /\ CallsOf(h, t.key) >= 1
    /\ CallsOf(h, t.key) <= MAX_CATEGORIZATION_RETRIES
    /\ InFlight(h, t) = IF t.status = "awaiting" THEN 1 ELSE 0
    /\ t.hasVirts => t.status = "resolved"

\* C21 as stated: every toolset of an invocation gets between one and
\* MAX_CATEGORIZATION_RETRIES getOrInsert calls, at most one in flight, and
\* none after an attempt produced a result.
C21_AttemptsOfEveryToolset ==
    \A i \in 1..Len(tasks) : AttemptsBounded(hist, tasks[i])

\* C21 amended: every non-builtin toolset larger than
\* MIN_TOOLSET_SIZE_TO_GROUP gets between one and MAX_CATEGORIZATION_RETRIES
\* getOrInsert calls, at most one of them in flight at any time, and no call
\* is made for it once its task has resolved.
C21_AttemptsOfCategorizedToolsets ==
    [][\A i \in 1..Len(tasks') :
          ~PassedThrough(i)' =>
              /\ AttemptsBounded(hist', tasks'[i])
              /\ (i <= Len(tasks) /\ tasks[i] = tasks'[i] /\ pc = "categorizing"
                    /\ tasks[i].status = "resolved") =>
                    CallsOf(hist', tasks[i].key) = CallsOf(hist, tasks[i].key)]_vars

C21_Witness ==
    /\ pc = "categorizing"
    /\ \E i, j \in 1..Len(tasks) :
          /\ tasks[i].status = "resolved" /\ tasks[i].hasVirts
          /\ CallsOf(hist, tasks[i].key) = 1
          /\ tasks[j].status = "awaiting"
          /\ CallsOf(hist, tasks[j].key) = MAX_CATEGORIZATION_RETRIES
    /\ \E i \in 1..Len(tasks) : PassedThrough(i)

\* C22: when addGroups first waits, every non-builtin toolset above the size
\* threshold has its first attempt under way; afterwards a step of one
\* toolset's task (an answer, a failure, a retry) leaves every other task
\* and its number of attempts as they were, and a task that got an answer
\* resolves with the groups of that answer alone.
C22_FanOut ==
    [][/\ (pc = "idle" /\ pc' = "categorizing") =>
             \A i \in 1..Len(tasks') :
                 ~PassedThrough(i)' =>
                     /\ tasks'[i].status = "awaiting"
                     /\ CallsOf(hist', tasks'[i].key) = 1
       /\ (pc = "categorizing" /\ pc' = "categorizing") =>
             \A i, j \in 1..Len(tasks) :
                 (i # j /\ tasks'[i] # tasks[i]) =>
                     /\ tasks'[j] = tasks[j]
                     /\ CallsOf(hist', tasks[j].key) = CallsOf(hist, tasks[j].key)
       /\ \A i \in 1..Len(tasks') :
             tasks'[i].hasVirts =>
                 tasks'[i].value =
                     ToolsetResult(tasks'[i].key, tasks'[i].tools, TRUE,
                                   MapGet(hist'.cache, tasks'[i].tools))]_vars

C22_Witness ==
    /\ pc = "categorizing"
    /\ \E i, j, k \in 1..Len(tasks) :
          /\ tasks[i].status = "awaiting" /\ tasks[i].retries >= 1
          /\ tasks[j].status = "resolved" /\ tasks[j].hasVirts
          /\ tasks[j].retries = 1
          /\ tasks[k].status = "resolved" /\ Exhausted(k)

\* the previous tree holds a categorization for the toolset of task t with a
\* category that names a tool of the toolset
HasUsablePrevious(t) ==
    /\ MapHas(call.previousCategorizations, t.key)
    /\ \E c \in Range(MapGet(call.previousCategorizations, t.key)) :
          \E u \in Range(c.tools) : u.name \in Range(Names(t.tools))

\* C23: the oracle request of a toolset is summarize-single-group when the
\* toolset has at most GROUP_WITHIN_TOOLSET tools; otherwise it is
\* divide-into-existing-groups when the previous tree has a categorization
\* for the toolset key that still names a tool of the toolset, and a fresh
\* divide-into-groups otherwise.
C23_OracleVariant ==
    \A i \in 1..Len(tasks) :
        tasks[i].oracle.variant # "none" =>
            tasks[i].oracle.variant =
                IF Len(tasks[i].tools) <= GROUP_WITHIN_TOOLSET THEN "summarizeToolGroup"
                ELSE IF HasUsablePrevious(tasks[i]) THEN "divideToolsIntoExistingGroups"
                ELSE "divideToolsIntoGroups"

C23_Witness ==
    \E i \in 1..Len(tasks) :
        /\ tasks[i].oracle.variant = "divideToolsIntoExistingGroups"
        /\ tasks[i].hasVirts
        /\ Len(tasks[i].oracle.previous)
              < Len(MapGet(call.previousCategorizations, tasks[i].key))

\* C24: every category handed to the divide-into-existing-groups oracle has
\* at least one tool and names only tools of the current toolset, and while
\* the tasks run the metadata.groups of the nodes of the previous tree are
\* what they were when the call took its snapshot of them.
C24_PreviousPrunedNotModified ==
    [][/\ \A i \in 1..Len(tasks') :
             \A c \in Range(tasks'[i].oracle.previous) :
                 /\ c.tools # <<>>
                 /\ \A u \in Range(c.tools) : u.name \in Range(Names(tasks'[i].tools))
       /\ pc' = "categorizing" =>
             /\ previousCategorizationsOf(root') = call'.previousCategorizations
             /\ pc = "categorizing" => root' = root]_vars

C24_Witness ==
    /\ pc = "categorizing"
    /\ \E i \in 1..Len(tasks) :
          LET previous == MapGet(call.previousCategorizations, tasks[i].key) IN
          /\ tasks[i].oracle.variant = "divideToolsIntoExistingGroups"
          /\ Len(tasks[i].oracle.previous) = 2
          /\ Len(previous) = 2
          /\ \E k \in 1..2 :
                /\ tasks[i].oracle.previous[k].name = previous[k].name
                /\ Len(tasks[i].oracle.previous[k].tools) < Len(previous[k].tools)

\* the categories of an answer that carry the sentinel name
SentinelCategories(virts) ==
    SeqFilter(virts, {c \in Range(virts) : c.name = UNCATEGORIZED_TOOLS_GROUP_NAME})

\* C25: no VirtualTool built from a categorization result carries the
\* sentinel name, and the tools of the result's sentinel categories are the
\* individual leaves that follow the toolset's groups.
C25_SentinelNeverAGroup ==
    \A i \in 1..Len(tasks) :
        tasks[i].hasVirts =>
            LET virts == MapGet(hist.cache, tasks[i].tools)
                value == tasks[i].value
                u == Flat([k \in 1..Len(SentinelCategories(virts)) |->
                              SentinelCategories(virts)[k].tools])
                groups == Len(value) - Len(u)
            IN /\ \A k \in 1..Len(value) :
                      IsVirtualTool(value[k]) =>
                          value[k].name # VIRTUAL_TOOL_NAME_PREFIX \o UNCATEGORIZED_TOOLS_GROUP_NAME
               /\ groups >= 0
               /\ SubSeq(value, groups + 1, Len(value)) = u
               /\ \A k \in 1..groups : IsVirtualTool(value[k])

\* C26: addGroups waits for the predicted tools (the embedding service and
\* the ranker) only when the flag is enabled; with the flag disabled the
\* tree it leaves is the rebuilt tree after the budget-driven pass alone;
\* with the flag enabled and the predicted tools returned, it is the tree
\* after the query-driven pass followed by the budget-driven pass.
C26_QueryExpansionGated ==
    [][/\ pc' = "predicting" => call'.flag
       /\ (pc = "categorizing" /\ pc' # "categorizing" /\ ~call.flag) =>
             /\ pc' = "idle"
             /\ root' = reExpandToolsToHitBudget(Rebuilt)
       /\ (pc = "predicting" /\ hist'.outcome = "returned") =>
             \E predicted \in PredictedAnswers(call.tools) :
                 root' = reExpandToolsToHitBudget(
                             expandGroupsWithPredictedTools(root, predicted))]_vars

C26_Witness ==
    /\ Completed
    /\ call.flag
    /\ tasks # <<>>
    /\ root # reExpandToolsToHitBudget(Rebuilt)

\* the top-level groups of tree r that are collapsed and hold a predicted tool
QueryCandidates(r, predicted) ==
    {i \in 1..Len(r.contents) :
        /\ IsVirtualTool(r.contents[i])
        /\ ~r.contents[i].isExpanded
        /\ \E t \in Range(r.contents[i].contents) : t.name \in Range(predicted)}

\* the lowest index in predicted of a tool of group i
BestPredicted(r, predicted, i) ==
    CHOOSE p \in 1..Len(predicted) :
        /\ predicted[p] \in Range(Names(r.contents[i].contents))
        /\ \A q \in 1..(p - 1) : predicted[q] \notin Range(Names(r.contents[i].contents))

\* the tree after the pass is the tree at its start with exactly the groups
\* the pass expanded marked expanded
OnlyExpandedChanged(x) ==
    \A i \in 1..Len(x.start.contents) :
        x.root.contents[i] =
            IF i \in Range(x.expanded) THEN Expand(x.start.contents, i)[i]
            ELSE x.start.contents[i]

\* C27: the query-driven pass expands only collapsed top-level groups that
\* hold a predicted tool, in ascending order of their best predicted index;
\* the groups it expands come before every candidate it leaves collapsed,
\* and the first candidate left collapsed is one that would push the
\* visible count above HARD_TOOL_LIMIT.
C27_QueryPassExpandsPrefix ==
    xp.pc = "queried" =>
        LET r == xp.start
            cands == QueryCandidates(r, xp.predicted)
            done == Range(xp.expanded)
            rest == cands \ done
            best(i) == BestPredicted(r, xp.predicted, i)
        IN /\ done \subseteq cands
           /\ OnlyExpandedChanged(xp)
           /\ \A k, l \in 1..Len(xp.expanded) :
                 k < l => best(xp.expanded[k]) < best(xp.expanded[l])
           /\ \A i \in done, j \in rest : best(i) < best(j)
           /\ \A j \in rest :
                 (\A j2 \in rest : best(j) <= best(j2)) =>
                     ToolCount(xp.root) - 1 + Len(r.contents[j].contents) > HARD_TOOL_LIMIT

C27_Witness ==
    /\ xp.pc = "queried"
    /\ xp.expanded # <<>>
    /\ \E j \in QueryCandidates(xp.start, xp.predicted) \ Range(xp.expanded) :
          ToolCount(xp.root) - 1 + Len(xp.start.contents[j].contents) <= HARD_TOOL_LIMIT

\* the collapsed top-level groups of tree r
CollapsedGroups(r) ==
    {i \in 1..Len(r.contents) : IsVirtualTool(r.contents[i]) /\ ~r.contents[i].isExpanded}

\* C28: the budget-driven pass leaves the tree alone when the visible count
\* exceeds EXPAND_UNTIL_COUNT at its start; otherwise it only expands
\* collapsed top-level groups, and when it ends the visible count exceeds
\* EXPAND_UNTIL_COUNT, or no collapsed top-level group remains, or each
\* remaining one would push the visible count above HARD_TOOL_LIMIT.
C28_BudgetPassEnds ==
    xp.pc = "done" =>
        IF ToolCount(xp.start) > EXPAND_UNTIL_COUNT THEN xp.root = xp.start
        ELSE /\ Range(xp.expanded) \subseteq CollapsedGroups(xp.start)
             /\ OnlyExpandedChanged(xp)
             /\ \/ ToolCount(xp.root) > EXPAND_UNTIL_COUNT
                \/ CollapsedGroups(xp.root) = {}
                \/ \A j \in CollapsedGroups(xp.root) :
                      ToolCount(xp.root) - 1 + Len(xp.root.contents[j].contents)
                          > HARD_TOOL_LIMIT

C28_Witness ==
    /\ xp.pc = "done"
    /\ ToolCount(xp.start) <= EXPAND_UNTIL_COUNT
    /\ xp.expanded # <<>>
    /\ ToolCount(xp.root) <= EXPAND_UNTIL_COUNT
    /\ CollapsedGroups(xp.root) # {}

\* C29: when the budget-driven pass has ended, no top-level group it
\* expanded has strictly more children than a top-level group that was
\* collapsed at the start of the pass and is still collapsed.
C29_BudgetPassSmallestFirst ==
    xp.pc = "done" =>
        \A i \in Range(xp.expanded), j \in CollapsedGroups(xp.start) \ Range(xp.expanded) :
            Len(xp.start.contents[i].contents) <= Len(xp.start.contents[j].contents)

C29_Witness ==
    /\ xp.pc = "done"
    /\ \E i \in Range(xp.expanded), j \in CollapsedGroups(xp.root) :
          /\ j < i
          /\ Len(xp.start.contents[i].contents) < Len(xp.start.contents[j].contents)

\* C30: in both passes the count kept in toolCount is, before the first
\* expansion and after each one, the length of root.tools() recomputed on
\* the tree of that moment.
C30_IncrementalCountIsRecount ==
    xp.pc \in {"query", "budget"} => xp.toolCount = ToolCount(xp.root)

C30_Witness ==
    /\ xp.pc = "budget"
    /\ xp.expanded # <<>>
    /\ xp.input # xp.start
    /\ \E i \in 1..Len(xp.root.contents) : ~IsVirtualTool(xp.root.contents[i])

\* the top-level groups the query-driven pass expanded, once the
\* budget-driven pass has started (xp.start is then the tree between the
\* two passes)
QueryExpanded(x) ==
    {i \in 1..Len(x.input.contents) :
        /\ IsVirtualTool(x.input.contents[i])
        /\ ~x.input.contents[i].isExpanded
        /\ x.start.contents[i].isExpanded}

\* C31: when both passes have run, a group expanded by the query-driven
\* pass and a group expanded by the budget-driven pass carry different
\* metadata.preExpanded values.
C31_PreExpandedTellsPassesApart ==
    xp.pc = "done" =>
        \A i \in QueryExpanded(xp), j \in Range(xp.expanded) :
            xp.root.contents[i].metadata.preExpanded
                # xp.root.contents[j].metadata.preExpanded

\* the previous tree had an expanded group of the name of g
CarriedExpanded(g) ==
    /\ MapHas(call.previousGroups, g.name)
    /\ MapGet(call.previousGroups, g.name).isExpanded

\* C32: when root.contents has been replaced and before any pass has run, a
\* group is expanded exactly when the previous tree had an expanded group
\* of its name; when addGroups has returned, every expanded top-level group
\* had such a previous group or was collapsed when the tree was published
\* (a pass of this call expanded it).
C32_StateCarriedByNameOnly ==
    /\ pc = "predicting" =>
          \A i \in 1..Len(root.contents) :
              IsVirtualTool(root.contents[i]) =>
                  (root.contents[i].isExpanded <=> CarriedExpanded(root.contents[i]))
    /\ (Completed /\ tasks # <<>>) =>
          \A i \in 1..Len(root.contents) :
              (IsVirtualTool(root.contents[i]) /\ root.contents[i].isExpanded) =>
                  \/ CarriedExpanded(root.contents[i])
                  \/ ~Rebuilt.contents[i].isExpanded

C32_Witness ==
    /\ Completed
    /\ ncalls = 2
    /\ \E i, k \in 1..Len(root.contents) :
          /\ IsVirtualTool(root.contents[i])
          /\ ~root.contents[i].isExpanded
          /\ ~MapHas(call.previousGroups, root.contents[i].name)
          /\ \E j \in 1..Len(call.previousGroups) :
                /\ call.previousGroups[j].v.isExpanded
                /\ call.previousGroups[j].v.contents = root.contents[i].contents
          /\ IsVirtualTool(root.contents[k])
          /\ root.contents[k].isExpanded

\* C37: if the visible count is at most HARD_TOOL_LIMIT when a pass starts,
\* it is at most HARD_TOOL_LIMIT after every expansion of the pass and when
\* the pass has ended, the count being recomputed on the tree.
C37_PassesPreserveBudget ==
    (xp.pc \in {"query", "queried", "budget", "done"}
        /\ ToolCount(xp.start) <= HARD_TOOL_LIMIT)
      => ToolCount(xp.root) <= HARD_TOOL_LIMIT

C37_Witness ==
    /\ xp.pc = "done"
    /\ xp.expanded # <<>>
    /\ ToolCount(xp.root) <= EXPAND_UNTIL_COUNT
    /\ \E j \in CollapsedGroups(xp.root) :
          ToolCount(xp.root) - 1 + Len(xp.root.contents[j].contents) > HARD_TOOL_LIMIT

\* the toolset an entry of root.contents came from
ToolsetOf(item) ==
    IF IsVirtualTool(item) THEN item.metadata.toolsetKey ELSE ToolsetKey(item)

\* the index in the input of the first tool of toolset key
FirstAppearance(key) ==
    CHOOSE i \in 1..Len(call.tools) :
        /\ ToolsetKey(call.tools[i]) = key
        /\ \A j \in 1..(i - 1) : ToolsetKey(call.tools[j]) # key

\* root.contents as the tool list and the answer held for each toolset
\* determine it, whatever the order in which the tasks settled
ExpectedContents ==
    LET by == byToolsetOf(call.tools)
        result(i) == IF tasks[i].hasVirts
                       THEN ToolsetResult(by[i].k, by[i].v, TRUE, MapGet(hist.cache, by[i].v))
                       ELSE by[i].v
    IN deduplicateGroups(Flat([i \in 1..Len(by) |-> result(i)]))

\* the entries of c are those of e in the same order: the same names, and
\* the same children for a group
SameEntries(c, e) ==
    /\ Len(c) = Len(e)
    /\ \A k \in 1..Len(c) :
          /\ c[k].name = e[k].name
          /\ IsVirtualTool(c[k]) = IsVirtualTool(e[k])
          /\ IsVirtualTool(c[k]) => c[k].contents = e[k].contents

\* C38 as stated: when root.contents has been replaced, its entries are
\* those the tool list and the answer for each toolset give, whatever the
\* order in which the tasks settled, with the toolsets in order of first
\* appearance in the input and each toolset's groups before its
\* uncategorized tools.
C38_FirstAppearanceOrder ==
    (pc = "predicting" \/ (Completed /\ tasks # <<>>)) =>
        LET c == root.contents IN
        /\ SameEntries(c, ExpectedContents)
        /\ \A k, l \in 1..Len(c) :
              k < l =>
                /\ FirstAppearance(ToolsetOf(c[k])) <= FirstAppearance(ToolsetOf(c[l]))
                /\ ToolsetOf(c[k]) = ToolsetOf(c[l]) =>
                      ~(~IsVirtualTool(c[k]) /\ IsVirtualTool(c[l]))

\* C38, amended: when root.contents has been replaced, its entries are, in
\* this order, the deduplication of the toolsets' results concatenated in
\* order of first appearance in the input, each result being the groups
\* then the uncategorized tools that the answer for the toolset gives; the
\* order in which the tasks settled has no part in it.
C38_CompletionOrderIrrelevant ==
    (pc = "predicting" \/ (Completed /\ tasks # <<>>)) =>
        SameEntries(root.contents, ExpectedContents)

C38_Witness ==
    /\ Completed
    /\ \E a, b \in 1..Len(hist.resolved) :
          /\ a < b
          /\ hist.resolved[a] > hist.resolved[b]
          /\ tasks[hist.resolved[a]].hasVirts
          /\ tasks[hist.resolved[b]].hasVirts
    /\ \E k, l \in 1..Len(root.contents) :
          /\ k < l
          /\ IsVirtualTool(root.contents[k])
          /\ IsVirtualTool(root.contents[l])
          /\ FirstAppearance(ToolsetOf(root.contents[k]))
                > FirstAppearance(ToolsetOf(root.contents[l]))

\* C39: deduplicateGroups returns an input whose names are pairwise
\* distinct as it is, the same items in the same order, and applied to the
\* array it returned it returns that array's items in the same order.
C39_IdentityAndIdempotent ==
    /\ (dPhase # "in" /\ Distinct(Names(dIn))) => dOut = dIn
    /\ dPhase = "twice" => dTwice = dOut

C39_Witness ==
    /\ dPhase = "twice"
    /\ ~Distinct(Names(dIn))
    /\ Len(dOut) = MaxDedupLen
    /\ dOut # dIn
    /\ \E i \in 1..Len(dOut) :
          IsVirtualTool(dOut[i]) /\ dOut[i].metadata.possiblePrefix # ""

\* C35: provided every awaited call settles, an invocation of addGroups
\* that is under way eventually completes.
C35_AddGroupsTerminates == (pc # "idle") ~> (pc = "idle")

C35_Witness ==
    /\ Completed
    /\ \E i, j \in 1..Len(tasks) :
          /\ tasks[i].retries = MAX_CATEGORIZATION_RETRIES /\ ~tasks[i].hasVirts
          /\ tasks[j].retries = MAX_CATEGORIZATION_RETRIES /\ tasks[j].hasVirts
    /\ call.flag

(***************************************************************************)
(* ToolEmbeddingsComputer.ensureInitialized under overlapping calls of     *)
(* retrieveSimilarEmbeddingsForAvailableTools: MaxBootCalls callers, each  *)
(* running ensureInitialized and the loader it awaits.  The two versions   *)
(* of the class have the same shape here: the loader tests its memo        *)
(* (embeddingsMap, embeddings) before the await and sets it after.         *)
(***************************************************************************)
MaxBootCalls == 3

BootCallers == 1..MaxBootCalls

NoMemo == [defined |-> FALSE, value |-> <<>>]

\* the entries of a snapshot as for ... of iterates them
EntriesOf(snapshot) == [i \in 1..Len(snapshot) |-> <<snapshot[i].k, snapshot[i].v>>]

InitBoot ==
    /\ IdleG
    /\ session = [toolLists |-> {}, maxCalls |-> 0, flags |-> {}]
    /\ IdleD
    /\ IdleE
    /\ IdleX
    /\ ep = [pc |-> "off"]
    /\ lg = [pc |-> "off"]
    /\ \E snapshot \in Snapshots :
          boot = [pc |-> "on", snapshot |-> snapshot, embeddingsMap |-> NoMemo,
                  reads |-> 0, seeds |-> 0, failed |-> 0,
                  callers |-> [k \in BootCallers |-> [pc |-> "off", map |-> <<>>]]]

\* lines 78-79, 98-103 and 29-38: caller k enters ensureInitialized; it
\* returns at once when the computer is initialized, else it calls the
\* loader, which reads the snapshot source unless its memo is set, and
\* awaits
BootCall(k) ==
    /\ boot.pc = "on"
    /\ boot.callers[k].pc = "off"
    /\ boot' =
         IF isInitialized
           THEN [boot EXCEPT !.callers[k].pc = "done"]
         ELSE IF boot.embeddingsMap.defined
           THEN [boot EXCEPT !.callers[k] = [pc |-> "seeding", map |-> boot.embeddingsMap.value]]
         ELSE [boot EXCEPT !.callers[k].pc = "loading", !.reads = @ + 1]
    /\ UNCHANGED <<embeddingsStore, isInitialized, emb, ep, lg, varsG, varsD, varsX>>

\* lines 38-52 and 30-35: the source resolves; the loader builds the map,
\* sets its memo and returns it to ensureInitialized
BootLoaded(k) ==
    /\ boot.pc = "on"
    /\ boot.callers[k].pc = "loading"
    /\ boot' = [boot EXCEPT !.embeddingsMap = [defined |-> TRUE, value |-> boot.snapshot],
                            !.callers[k] = [pc |-> "seeding", map |-> boot.snapshot]]
    /\ UNCHANGED <<embeddingsStore, isInitialized, emb, ep, lg, varsG, varsD, varsX>>

\* part_002 lines 53-56: the source rejects; the error is logged and the
\* loader returns an empty map, which becomes its memo
BootLoadFails(k) ==
    /\ boot.pc = "on"
    /\ boot.callers[k].pc = "loading"
    /\ boot' = [boot EXCEPT !.embeddingsMap = [defined |-> TRUE, value |-> <<>>],
                            !.failed = @ + 1,
                            !.callers[k] = [pc |-> "seeding", map |-> <<>>]]
    /\ UNCHANGED <<embeddingsStore, isInitialized, emb, ep, lg, varsG, varsD, varsX>>

\* lines 104-108: ensureInitialized resumes, seeds the store from the map
\* it was given and marks the computer initialized
BootSeed(k) ==
    /\ boot.pc = "on"
    /\ boot.callers[k].pc = "seeding"
    /\ embeddingsStore' = StoreAll(embeddingsStore, EntriesOf(boot.callers[k].map))
    /\ isInitialized' = TRUE
    /\ boot' = [boot EXCEPT !.callers[k].pc = "done", !.seeds = @ + 1]
    /\ UNCHANGED <<emb, ep, lg, varsG, varsD, varsX>>

NextBoot ==
    \/ \E k \in BootCallers : BootCall(k)
    \/ \E k \in BootCallers : BootLoaded(k)
    \/ \E k \in BootCallers : BootLoadFails(k)
    \/ \E k \in BootCallers : BootSeed(k)

SpecBoot == InitBoot /\ [][NextBoot]_vars

\* C33: over any calls of retrieveSimilarEmbeddingsForAvailableTools on
\* one ToolEmbeddingsComputer, overlapping ones included, the snapshot
\* source is read at most once and the store is seeded at most once.
C33_SnapshotLoadedOnce ==
    boot.pc = "on" => (boot.reads <= 1 /\ boot.seeds <= 1)

(***************************************************************************)
(* OpenAICompatibleTestEndpoint.interceptBody.  A request body is a        *)
(* function from its keys to values, "absent" for a key it does not have;  *)
(* JavaScript values are written as strings.  The body is taken as         *)
(* super.interceptBody leaves it.                                          *)
(***************************************************************************)
MaxOverridesSet == 2

OverrideKeys == {"temperature", "top_p", "snippy", "max_tokens", "max_completion_tokens", "intent"}

BodyKeys == OverrideKeys \cup {"tools", "messages", "model", "stream_options"}

\* what an override can be: left out, null, or a value of its type
OverrideValues(key) ==
    IF key \in {"snippy", "intent"} THEN {"undefined", "null", "false", "true"}
    ELSE {"undefined", "null", "0", "1"}

\* the overrides of the model configurations: at most MaxOverridesSet of
\* them are not left out
OverrideConfigs ==
    {o \in [OverrideKeys -> {"undefined", "null", "false", "true", "0", "1"}] :
        /\ \A k \in OverrideKeys : o[k] \in OverrideValues(k)
        /\ Cardinality({k \in OverrideKeys : o[k] # "undefined"}) <= MaxOverridesSet}

\* request bodies: every override key present, none present, some present
Bodies ==
    { [k \in BodyKeys |->
         IF k = "messages" THEN "system,user"
         ELSE IF k = "tools" THEN "[]"
         ELSE IF k \in {"model", "stream_options"} THEN "absent"
         ELSE "old"],
      [k \in BodyKeys |-> IF k = "messages" THEN "user" ELSE "absent"],
      [k \in BodyKeys |->
         IF k = "messages" THEN "system,user"
         ELSE IF k = "tools" THEN "[t]"
         ELSE IF k \in {"temperature", "snippy", "max_completion_tokens"} THEN "old"
         ELSE "absent"] }

\* if (value): the values JavaScript takes as true
Truthy(v) == v \in {"1", "true"}

\* the value an override stores under key
Stored(key, v) == IF key = "snippy" THEN "{enabled:" \o v \o "}" ELSE v

\* lines 47-49, the rule the comment on IModelConfig.overrides states: null
\* deletes the key, undefined leaves it, any other value is stored
ApplyOverrideAsDocumented(body, key, v) ==
    IF v = "null" THEN [body EXCEPT ![key] = "absent"]
    ELSE IF v # "undefined" THEN [body EXCEPT ![key] = Stored(key, v)]
    ELSE body

\* lines 145-173: if (override === null) delete body[key];
\* else if (override) body[key] = ...
ApplyOverride(body, key, v) ==
    IF v = "null" THEN [body EXCEPT ![key] = "absent"]
    ELSE IF Truthy(v) THEN [body EXCEPT ![key] = Stored(key, v)]
    ELSE body

\* messages with the system role replaced by role
MapSystemRole(messages, role) ==
    IF messages = "system,user" THEN role \o ",user" ELSE messages

\* lines 137-207
interceptBody(cfg, body) ==
    LET b1 == IF body["tools"] = "[]" THEN [body EXCEPT !["tools"] = "absent"] ELSE body
        b2 == ApplyOverride(b1, "snippy", cfg.overrides["snippy"])
        b3 == ApplyOverride(b2, "intent", cfg.overrides["intent"])
        b4 == ApplyOverride(b3, "temperature", cfg.overrides["temperature"])
        b5 == ApplyOverride(b4, "top_p", cfg.overrides["top_p"])
        b6 == ApplyOverride(b5, "max_tokens", cfg.overrides["max_tokens"])
        b7 == IF cfg.type = "openai"
                THEN [b6 EXCEPT !["stream_options"] = "{include_usage:true}",
                                !["model"] = cfg.name,
                                !["messages"] = MapSystemRole(@, "user")]
                ELSE b6
    IN IF cfg.useDeveloperRole
         THEN [k \in BodyKeys |->
                 IF k = "messages" THEN MapSystemRole(b7["messages"], "developer")
                 ELSE "absent"]
         ELSE b7

InitBody ==
    /\ IdleG
    /\ session = [toolLists |-> {}, maxCalls |-> 0, flags |-> {}]
    /\ IdleD
    /\ IdleE
    /\ IdleX
    /\ boot = [pc |-> "off"]
    /\ lg = [pc |-> "off"]
    /\ \E overrides \in OverrideConfigs, type \in {"openai", "azureOpenai"},
          useDeveloperRole \in BOOLEAN, body \in Bodies :
          ep = [pc |-> "request",
                modelConfig |-> [name |-> "m", type |-> type,
                                 useDeveloperRole |-> useDeveloperRole,
                                 overrides |-> overrides],
                given |-> body, body |-> body]

\* the endpoint intercepts the request body
InterceptBody ==
    /\ ep.pc = "request"
    /\ ep' = [ep EXCEPT !.pc = "intercepted",
                        !.body = interceptBody(ep.modelConfig, ep.given)]
    /\ UNCHANGED <<boot, lg, varsG, varsD, varsE, varsX>>

NextBody == InterceptBody

SpecBody == InitBody /\ [][NextBody]_vars

\* C36: after interceptBody, for each of the six override keys: a null
\* override has deleted the key, an undefined override has left the body's
\* value as it was, and a set value, 0 and false included, is the body's
\* value.
C36_OverridesApplied ==
    ep.pc = "intercepted" =>
        \A k \in OverrideKeys :
            ep.body[k] = ApplyOverrideAsDocumented(ep.given, k, ep.modelConfig.overrides[k])[k]

(***************************************************************************)
(* NodeTelemetryFileLogger.logLine.  The file is the sequence of its       *)
(* newline-terminated lines; an await suspends the call and queues its     *)
(* continuation as a microtask, and microtasks run first in, first out.    *)
(***************************************************************************)
MaxLogCalls == 3

LogCallers == 1..MaxLogCalls

\* the line caller k logs
LineOf(k) == <<"a", "b", "c", "d", "e", "f">>[k]

\* the file before the first call: missing, empty, or holding a line
LogFiles ==
    { [exists |-> FALSE, content |-> <<>>],
      [exists |-> TRUE, content |-> <<>>],
      [exists |-> TRUE, content |-> <<"old">>] }

\* lines 29-38: _readExistingContent
readExistingContent(file) == IF file.exists THEN file.content ELSE <<>>

\* lines 18-22: existingContent + line + newline, written as the whole file
writeNewContent(existingContent, line) ==
    [exists |-> TRUE, content |-> Append(existingContent, line)]

InitLog ==
    /\ IdleG
    /\ session = [toolLists |-> {}, maxCalls |-> 0, flags |-> {}]
    /\ IdleD
    /\ IdleE
    /\ IdleX
    /\ boot = [pc |-> "off"]
    /\ ep = [pc |-> "off"]
    /\ \E file \in LogFiles :
          lg = [pc |-> "on", before |-> file, file |-> file, microtasks |-> <<>>,
                calls |-> [k \in LogCallers |-> [pc |-> "off", existingContent |-> <<>>]]]

\* lines 15-19: logLine(line) is called; it reads the file and suspends on
\* the await of _readExistingContent
LogLineCall(k) ==
    /\ lg.pc = "on"
    /\ lg.calls[k].pc = "off"
    /\ lg' = [lg EXCEPT !.calls[k] = [pc |-> "read",
                                      existingContent |-> readExistingContent(lg.file)],
                        !.microtasks = Append(@, k)]
    /\ UNCHANGED <<boot, ep, varsG, varsD, varsE, varsX>>

\* lines 20-22: the first microtask is the continuation of a call that has
\* read: it writes the file and suspends on the await of the write
LogLineWrites ==
    /\ lg.pc = "on"
    /\ lg.microtasks # <<>>
    /\ lg.calls[Head(lg.microtasks)].pc = "read"
    /\ LET k == Head(lg.microtasks) IN
         lg' = [lg EXCEPT !.file = writeNewContent(lg.calls[k].existingContent, LineOf(k)),
                          !.calls[k].pc = "written",
                          !.microtasks = Append(Tail(@), k)]
    /\ UNCHANGED <<boot, ep, varsG, varsD, varsE, varsX>>

\* line 26: the first microtask is the continuation of a call that has
\* written: logLine returns
LogLineReturns ==
    /\ lg.pc = "on"
    /\ lg.microtasks # <<>>
    /\ lg.calls[Head(lg.microtasks)].pc = "written"
    /\ lg' = [lg EXCEPT !.calls[Head(lg.microtasks)].pc = "done",
                        !.microtasks = Tail(@)]
    /\ UNCHANGED <<boot, ep, varsG, varsD, varsE, varsX>>

NextLog ==
    \/ \E k \in LogCallers : LogLineCall(k)
    \/ LogLineWrites
    \/ LogLineReturns

SpecLog == InitLog /\ [][NextLog]_vars

\* the callers whose call has completed
Logged == {k \in LogCallers : lg.calls[k].pc = "done"}

\* C40: when every call of logLine that was started has completed, the
\* file holds what it held before, followed by every logged line exactly
\* once.
C40_NoLineLost ==
    (lg.pc = "on" /\ lg.microtasks = <<>>) =>
        LET old == readExistingContent(lg.before)
            new == lg.file.content
        IN /\ Len(new) = Len(old) + Cardinality(Logged)
           /\ SubSeq(new, 1, Len(old)) = old
           /\ \A k \in Logged :
                 Cardinality({i \in (Len(old) + 1)..Len(new) : new[i] = LineOf(k)}) = 1

====
